---- MODULE Spec2Model ----
(***************************************************************************)
(* YtAutomator: the video synthesis of components/YouTubeUploader.tsx.     *)
(* generateCaptions, createVideoBlob (asset loading, MediaRecorder, the    *)
(* 30 fps render loop) and the handleUpload / handleDownload handlers.     *)
(*                                                                         *)
(* Time is exact rational arithmetic: a time value is a record [n, d]      *)
(* meaning n/d seconds.  Text is a sequence of one-character strings.      *)
(* One behaviour follows one press of Upload or Download.                  *)
(***************************************************************************)
EXTENDS Integers, Sequences, FiniteSets, TLC

(***************************************************************************)
(* Program constants                                                       *)
(***************************************************************************)
FPS == 30
FADE_DURATION_FRAMES == 15

(***************************************************************************)
(* Bounds of the model                                                     *)
(***************************************************************************)
\* durations are multiples of 1/(FPS*SubFrames) seconds
SubFrames == 2
\* longest audio duration of the general runs, in those units
MaxDuration == 5
\* most visuals in videoDetails.visuals
MaxVisuals == 2
\* most dataavailable events the encoder fires before the recorder is stopped
MaxChunks == 2
\* sample times per slot of a visual
SlotGrid == 2
\* longest script enumerated character by character
MaxScriptLen == 4
\* longest narration enumerated inside one pair of quotes
MaxNarrationLen == 4
\* presses of Upload and Download that are followed one after the other
MaxPresses == 2
\* narrow glyphs that fill a caption line to exactly 90% of the canvas width
MaxLineGlyphs == 4
\* longest caption text whose word wrap is enumerated
MaxCaptionLen == 5
\* media sizes are multiples up to this of a quarter of the canvas size
MaxMediaScale == 5

(***************************************************************************)
(* Text helpers (String.prototype and RegExp behaviour used by the code)   *)
(***************************************************************************)
QUOTE == "\""
NEWLINE == "\n"

IsWhitespace(c) == c \in {" ", NEWLINE}
IsTerminal(c) == c \in {".", "!", "?"}

\* the length of the sentences joined by single spaces
sumLengthsJoined(sentences) ==
  LET RECURSIVE Go(_)
      Go(i) == IF i > Len(sentences) THEN 0
               ELSE IF i = Len(sentences) THEN Len(sentences[i])
               ELSE Len(sentences[i]) + 1 + Go(i + 1)
  IN Go(1)
\* sentences.reduce((acc, s) => acc + s.length, 0)
sumLengths(sentences) ==
  LET RECURSIVE Go(_)
      Go(i) == IF i > Len(sentences) THEN 0 ELSE Len(sentences[i]) + Go(i + 1)
  IN Go(1)

\* String.prototype.trim
trim(s) ==
  LET nonWs == {i \in 1..Len(s) : ~IsWhitespace(s[i])}
  IN IF nonWs = {} THEN <<>>
     ELSE LET lo == CHOOSE i \in nonWs : \A j \in nonWs : i <= j
              hi == CHOOSE i \in nonWs : \A j \in nonWs : j <= i
          IN SubSeq(s, lo, hi)

\* Array.prototype.join(sep)
join(parts, sep) ==
  LET RECURSIVE Go(_)
      Go(i) == IF i > Len(parts) THEN <<>>
               ELSE IF i = Len(parts) THEN parts[i]
               ELSE parts[i] \o sep \o Go(i + 1)
  IN Go(1)

\* spans that may run over line breaks, as /"([^]*?)"/g would match
matchQuotedAcrossLines(script) ==
  LET RECURSIVE Go(_)
      Go(i) ==
        IF i > Len(script) THEN <<>>
        ELSE IF script[i] # QUOTE THEN Go(i + 1)
        ELSE LET closers == {j \in (i + 1)..Len(script) :
                               /\ script[j] = QUOTE
                               /\ \A k \in (i + 1)..(j - 1) : script[k] # QUOTE}
             IN IF closers = {} THEN Go(i + 1)
                ELSE LET j == CHOOSE x \in closers : TRUE
                     IN <<SubSeq(script, i, j)>> \o Go(j + 1)
  IN Go(1)
\* script.match(/"(.*?)"/g): the leftmost non-overlapping spans that open
\* with a quote and close with the next quote on the same line ('.' does
\* not match a line terminator).  <<>> stands for the null of "no match".
matchQuoted(script) ==
  LET RECURSIVE Go(_)
      Go(i) ==
        IF i > Len(script) THEN <<>>
        ELSE IF script[i] # QUOTE THEN Go(i + 1)
        ELSE LET closers == {j \in (i + 1)..Len(script) :
                               /\ script[j] = QUOTE
                               /\ \A k \in (i + 1)..(j - 1) :
                                     script[k] \notin {QUOTE, NEWLINE}}
             IN IF closers = {} THEN Go(i + 1)
                ELSE LET j == CHOOSE x \in closers : TRUE
                     IN <<SubSeq(script, i, j)>> \o Go(j + 1)
  IN Go(1)

\* part.substring(1, part.length - 1)
stripQuotes(part) == SubSeq(part, 2, Len(part) - 1)

\* text.split(/\s+/): cut at every whitespace run
splitWords(text) ==
  LET RECURSIVE Go(_, _)
      Go(i, cur) ==
        IF i > Len(text) THEN <<cur>>
        ELSE IF IsWhitespace(text[i])
             THEN LET rest == {j \in i..Len(text) : ~IsWhitespace(text[j])}
                      nxt == IF rest = {} THEN Len(text) + 1
                             ELSE CHOOSE j \in rest : \A k \in rest : j <= k
                  IN <<cur>> \o Go(nxt, <<>>)
             ELSE Go(i + 1, Append(cur, text[i]))
  IN Go(1, <<>>)
\* text.split(/(?<=[.!?])\s+/): cut at every maximal whitespace run that
\* directly follows '.', '!' or '?'; the run is removed, the mark stays.
splitSentences(text) ==
  LET RECURSIVE Go(_, _)
      Go(i, cur) ==
        IF i > Len(text) THEN <<cur>>
        ELSE IF /\ IsWhitespace(text[i])
                /\ i > 1
                /\ IsTerminal(text[i - 1])
             THEN LET rest == {j \in i..Len(text) : ~IsWhitespace(text[j])}
                      nxt == IF rest = {} THEN Len(text) + 1
                             ELSE CHOOSE j \in rest : \A k \in rest : j <= k
                  IN <<cur>> \o Go(nxt, <<>>)
             ELSE Go(i + 1, Append(cur, text[i]))
  IN Go(1, <<>>)

(***************************************************************************)
(* Rational time                                                           *)
(***************************************************************************)
Rat(n, d) == [n |-> n, d |-> d]
RatLeq(a, b) == a.n * b.d <= b.n * a.d
RatLess(a, b) == a.n * b.d < b.n * a.d
\* a sum that loses its fraction
RatAddTruncated(a, b) == Rat((a.n * b.d + b.n * a.d) \div (a.d * b.d), 1)
\* a + b, kept over the common denominator when there is one
RatAdd(a, b) == IF a.d = b.d THEN Rat(a.n + b.n, a.d)
                ELSE Rat(a.n * b.d + b.n * a.d, a.d * b.d)
\* a in lowest terms
RatReduce(a) ==
  LET RECURSIVE gcd(_, _)
      gcd(p, q) == IF q = 0 THEN p ELSE gcd(q, p % q)
      g == gcd(IF a.n < 0 THEN -a.n ELSE a.n, a.d)
  IN Rat(a.n \div g, a.d \div g)
\* Math.round(a / b) for a >= 0, b > 0
RatRoundDiv(a, b) == (2 * a.n * b.d + a.d * b.n) \div (2 * a.d * b.n)
\* Math.floor(a / b) for a >= 0, b > 0
RatFloorDiv(a, b) == (a.n * b.d) \div (a.d * b.n)

\* audio.duration: a finite number of 1/(FPS*SubFrames) seconds, NaN or Infinity
isFinite(duration) == duration.kind = "finite"
Seconds(duration) == Rat(duration.units, FPS * SubFrames)

(***************************************************************************)
(* generateCaptions, the body of audio.onloadedmetadata                    *)
(***************************************************************************)
\* a duration check that lets a zero duration through
notFiniteDuration(duration) == ~isFinite(duration)
\* if (!isFinite(duration) || duration === 0): lines 24 and 86
invalidDuration(duration) == ~isFinite(duration) \/ duration.units = 0

\* narrationParts.map(part => part.substring(1, part.length - 1)).join(' ').trim()
fullNarration(script) ==
  LET narrationParts == matchQuoted(script)
  IN trim(join([i \in 1..Len(narrationParts) |-> stripQuotes(narrationParts[i])],
               <<" ">>))

\* the narration never split
narrationAsOneSentence(narration) ==
  IF Len(narration) > 0 THEN <<narration>> ELSE <<>>
\* fullNarration.split(/(?<=[.!?])\s+/).filter(s => s.trim()), and the whole
\* narration as one sentence when that leaves nothing: lines 33-39
narrationSentences(narration) ==
  LET split == SelectSeq(splitSentences(narration), LAMBDA s : trim(s) # <<>>)
  IN IF split = <<>> /\ Len(narration) > 0 THEN <<narration>> ELSE split

\* a sentence that is given the time of one character less
sentenceDurationShort(sentence, totalLength, duration) ==
  Rat((Len(sentence) - 1) * Seconds(duration).n, totalLength * Seconds(duration).d)
\* sentence.length / charsPerSecond, charsPerSecond = totalLength / duration
sentenceDuration(sentence, totalLength, duration) ==
  Rat(Len(sentence) * Seconds(duration).n, totalLength * Seconds(duration).d)

\* captions that all start at 0
layCaptionsFromEnd(sentences, duration) ==
  LET totalLength == sumLengths(sentences)
  IN [i \in 1..Len(sentences) |->
        [text |-> trim(sentences[i]), start |-> Rat(0, 1),
         end |-> sentenceDuration(sentences[i], totalLength, duration)]]
\* the captions laid back-to-back: lines 51-64
layCaptions(sentences, duration) ==
  LET totalLength == sumLengths(sentences)
      RECURSIVE Go(_, _)
      Go(i, currentTime) ==
        IF i > Len(sentences) THEN <<>>
        ELSE LET end == RatAdd(currentTime,
                               sentenceDuration(sentences[i], totalLength, duration))
             IN <<[text |-> trim(sentences[i]), start |-> currentTime, end |-> end]>>
                  \o Go(i + 1, end)
  IN Go(1, Rat(0, 1))

\* the outcome of generateCaptions once the metadata is there:
\* [ok |-> FALSE, error] for reject, [ok |-> TRUE, captions] for resolve
generateCaptions(script, duration) ==
  IF invalidDuration(duration)
  THEN [ok |-> FALSE, error |-> "Invalid audio duration for caption generation.",
        captions |-> <<>>]
  ELSE LET narrationParts == matchQuoted(script)
           sentences == narrationSentences(fullNarration(script))
       IN IF narrationParts = <<>> THEN [ok |-> TRUE, error |-> "", captions |-> <<>>]
          ELSE IF sentences = <<>> THEN [ok |-> TRUE, error |-> "", captions |-> <<>>]
          ELSE IF sumLengths(sentences) = 0
               THEN [ok |-> TRUE, error |-> "", captions |-> <<>>]
          ELSE [ok |-> TRUE, error |-> "",
                captions |-> layCaptions(sentences, duration)]

(***************************************************************************)
(* The canvas: cover fit and the caption's word wrap                       *)
(***************************************************************************)
canvasWidth == 1280
canvasHeight == 720
fontSize == 48
\* the y of the lowest caption line is canvas.height - 20
bottomMargin == 20

\* nothing drawn over the black background
NoRect == [x |-> Rat(0, 1), y |-> Rat(0, 1), w |-> Rat(0, 1), h |-> Rat(0, 1)]

\* a fit that shows the whole visual inside the canvas (Math.min)
containFit(mediaWidth, mediaHeight) ==
  LET hRatio == Rat(canvasWidth, mediaWidth)
      vRatio == Rat(canvasHeight, mediaHeight)
      ratio == IF RatLess(hRatio, vRatio) THEN hRatio ELSE vRatio
  IN [x |-> Rat(canvasWidth * ratio.d - mediaWidth * ratio.n, 2 * ratio.d),
      y |-> Rat(canvasHeight * ratio.d - mediaHeight * ratio.n, 2 * ratio.d),
      w |-> Rat(mediaWidth * ratio.n, ratio.d),
      h |-> Rat(mediaHeight * ratio.n, ratio.d)]
\* lines 170-175: ratio = Math.max(hRatio, vRatio), centerShift_x/y, and the
\* destination rectangle of drawImage
coverFit(mediaWidth, mediaHeight) ==
  LET hRatio == Rat(canvasWidth, mediaWidth)
      vRatio == Rat(canvasHeight, mediaHeight)
      ratio == IF RatLess(hRatio, vRatio) THEN vRatio ELSE hRatio
  IN [x |-> Rat(canvasWidth * ratio.d - mediaWidth * ratio.n, 2 * ratio.d),
      y |-> Rat(canvasHeight * ratio.d - mediaHeight * ratio.n, 2 * ratio.d),
      w |-> Rat(mediaWidth * ratio.n, ratio.d),
      h |-> Rat(mediaHeight * ratio.n, ratio.d)]

\* const maxWidth = canvas.width * 0.9
maxWidth == Rat(canvasWidth * 9, 10)

\* ctx.measureText(line).width: the advances of the glyphs added up; a narrow
\* glyph (a letter, a space) is maxWidth / MaxLineGlyphs wide, "W" twice that
measureText(line) ==
  LET RECURSIVE Go(_)
      Go(i) == IF i > Len(line) THEN 0
               ELSE (IF line[i] = "W" THEN 2 ELSE 1) + Go(i + 1)
  IN Rat(Go(1) * maxWidth.n, maxWidth.d * MaxLineGlyphs)

\* currentCaptionText.split(' ')
splitSpaces(text) ==
  LET RECURSIVE Go(_, _)
      Go(i, cur) ==
        IF i > Len(text) THEN <<cur>>
        ELSE IF text[i] = " " THEN <<cur>> \o Go(i + 1, <<>>)
        ELSE Go(i + 1, Append(cur, text[i]))
  IN Go(1, <<>>)

\* a wrap that breaks before every word that does not fit, the first included
wrapLinesEager(text) ==
  LET words == splitSpaces(text)
      RECURSIVE Go(_, _, _)
      Go(i, lines, currentLine) ==
        IF i > Len(words) THEN Append(lines, currentLine)
        ELSE LET testLine == IF currentLine # <<>>
                             THEN currentLine \o <<" ">> \o words[i] ELSE words[i]
             IN IF RatLess(maxWidth, measureText(words[i])) \/ currentLine # <<>>
                THEN Go(i + 1, Append(lines, currentLine), words[i])
                ELSE Go(i + 1, lines, testLine)
  IN Go(1, <<>>, <<>>)
\* lines 207-221: the greedy wrap of the words into lines
wrapLines(text) ==
  LET words == splitSpaces(text)
      RECURSIVE Go(_, _, _)
      Go(i, lines, currentLine) ==
        IF i > Len(words) THEN Append(lines, currentLine)
        ELSE LET testLine == IF currentLine # <<>>
                             THEN currentLine \o <<" ">> \o words[i] ELSE words[i]
             IN IF RatLess(maxWidth, measureText(testLine)) /\ currentLine # <<>>
                THEN Go(i + 1, Append(lines, currentLine), words[i])
                ELSE Go(i + 1, lines, testLine)
  IN Go(1, <<>>, <<>>)

\* lines 223-238: lines.reverse().forEach((line, index) => ...), each line
\* with the y of its baseline, canvas.height - index * fontSize * 1.2 - 20
captionLines(text) ==
  LET lines == wrapLines(text)
  IN [k \in 1..Len(lines) |->
        [line |-> lines[Len(lines) - k + 1],
         y |-> Rat((canvasHeight - bottomMargin) * 10 - (k - 1) * fontSize * 12, 10)]]

\* no tick has run
NoTick == [drew |-> FALSE, calls |-> <<>>, rect |-> NoRect, lines |-> <<>>]

(***************************************************************************)
(* State                                                                   *)
(***************************************************************************)
VARIABLES
  videoDetails,        \* props: script, visuals, audio (audioDataUrl set), duration
  handler,             \* which handler was pressed: "none", "upload", "download"
  pc,                  \* where that handler is: idle, captions, blob, upload, done
  isUploading, isDownloading, uploadError, downloadError, uploadSuccess,
  generatedCaptions,   \* what generateCaptions resolved with
  output,              \* the blob handed to uploadVideo or to the download link
  result,              \* the promise returned by createVideoBlob
  audio,               \* createVideoBlob's Audio element: idle, loading, loaded, error
  mediaElements,       \* per visual: idle, loading, loaded, failed
  recorder,            \* MediaRecorder: state and the events it has queued
  chunks,              \* const chunks: Blob[]
  playPromise,         \* audio.play(): none, pending, started, failed
  renderInterval,      \* TRUE while the setInterval timer is armed
  frame, totalFrames, slideDuration,
  currentVisualIndex, lastCaptionText, captionFadeInFrames,
  playing,             \* indices of the motion clips that are playing
  clipTime,            \* per visual: the position of its clip, in frames played
  rendered,            \* history: the frames drawn, in order
  lastTick,            \* history: what the last tick did to the clips and the canvas
  delivered,           \* history: the chunks of every dataavailable event, in order
  trace,               \* history: counters and flags of what has happened
  preview,             \* the live preview: captions, currentCaption, currentVisualIndex
  wizard,              \* App: currentStep, script, videoDetails; VideoCreator and its calls
  client               \* youtubeService: gapiLoaded, gisLoaded, tokenClient, onAuthChange

hvars == <<handler, pc, isUploading, isDownloading, uploadError, downloadError,
           uploadSuccess, generatedCaptions, output>>
loopvars == <<frame, totalFrames, slideDuration, currentVisualIndex,
              lastCaptionText, captionFadeInFrames, playing, clipTime, rendered,
              lastTick>>
recvars == <<recorder, chunks, delivered>>
\* everything but the live preview
synthesis == <<videoDetails, hvars, result, audio, mediaElements, recvars, playPromise,
               renderInterval, loopvars, trace>>
\* the wizard around the uploader, and the Google client
app == <<wizard, client>>
vars == <<synthesis, preview, app>>

(***************************************************************************)
(* Values                                                                  *)
(***************************************************************************)
\* an Error(message); name is the visual a load error names, 0 otherwise;
\* isError is FALSE for the event object recorder.onerror rejects with
Err(msg) == [msg |-> msg, name |-> 0, isError |-> TRUE]
\* the load error without the asset's name
VisualErrUnnamed(name) == [msg |-> "Failed to load visual", name |-> 0, isError |-> TRUE]
VisualErr(name) == [msg |-> "Failed to load visual", name |-> name, isError |-> TRUE]
RecorderErrorEvent == [msg |-> "MediaRecorderErrorEvent", name |-> 0, isError |-> FALSE]
Null == [msg |-> "null", name |-> 0, isError |-> FALSE]

NoResult == [kind |-> "none", blob |-> <<>>, error |-> Null]
Pending == [kind |-> "pending", blob |-> <<>>, error |-> Null]
Resolved(blob) == [kind |-> "blob", blob |-> blob, error |-> Null]
Rejected(err) == [kind |-> "error", blob |-> <<>>, error |-> err]

NoOutput == [given |-> FALSE, blob |-> <<>>]

Finite(units) == [kind |-> "finite", units |-> units]
Durations ==
  {[kind |-> "NaN", units |-> 0], [kind |-> "Infinity", units |-> 0]}
    \cup {Finite(u) : u \in 0..MaxDuration}

\* Intro: "a. b"   /   no quoted span   /   an empty quoted span
Scripts ==
  { <<"I", ":", NEWLINE, QUOTE, "a", ".", " ", "b", QUOTE>>,
    <<"a", ".">>,
    <<QUOTE, QUOTE>> }

\* width is the element's naturalWidth / videoWidth once loaded; 1 stands for
\* any positive width
VisualLists ==
  UNION { { [i \in 1..n |-> [name |-> i, isVideo |-> kinds[i], width |-> 1, height |-> 1]] :
              kinds \in [1..n -> BOOLEAN] } : n \in 0..MaxVisuals }

\* lists of images of which some decode to no pixels (width 0)
ImageLists ==
  UNION { { [i \in 1..n |-> [name |-> i, isVideo |-> FALSE, width |-> widths[i], height |-> widths[i]]] :
              widths \in [1..n -> 0..1] } : n \in 0..MaxVisuals }

\* videoDetails.title
title == <<"T", "i", "t", "l", "e">>

\* enum AppStep
GENERATE_SCRIPT == 1
CREATE_VIDEO == 2
UPLOAD_VIDEO == 3

\* useState<VideoDetails | null>(null)
NoVideoDetails == [isNull |-> TRUE, script |-> <<>>, visuals |-> <<>>,
                   audioDataUrl |-> FALSE]

\* no VideoCreator is mounted
NoCreator == [mounted |-> FALSE, visuals |-> <<>>, imagePrompts |-> <<>>,
              isLoadingDetails |-> FALSE, isCreating |-> FALSE]

\* VideoCreator's state as mounted
CreatorMounted == [mounted |-> TRUE, visuals |-> <<>>, imagePrompts |-> <<>>,
                   isLoadingDetails |-> TRUE, isCreating |-> FALSE]

\* App's state as constructed
AppStarted ==
  wizard = [currentStep |-> GENERATE_SCRIPT,
            script |-> <<>>,
            videoDetails |-> NoVideoDetails,
            creator |-> NoCreator,
            calls |-> <<>>,
            started |-> 0,
            invoked |-> 0]

\* youtubeService's module state while its two scripts load
ClientUnloaded ==
  client = [gapiScript |-> "loading",
            gapiLoaded |-> FALSE,
            gisLoaded |-> FALSE,
            tokenClient |-> 0,
            onAuthChange |-> 0,
            youtubeLoads |-> 0,
            token |-> FALSE,
            request |-> "none",
            requests |-> 0,
            ready |-> {},
            inits |-> 0,
            signIns |-> 0,
            lastSignIn |-> "none"]

\* the preview as mounted: no captions yet, currentCaption '', visual 0; the
\* caption effect (lines 281-290) has called generateCaptions when there are
\* audio and a script
PreviewMounted ==
  preview = [effect |-> IF videoDetails.audio /\ videoDetails.script # <<>>
                        THEN "pending" ELSE "idle",
             captions |-> <<>>,
             currentCaption |-> <<>>,
             currentVisualIndex |-> 0,
             time |-> Rat(0, 1),
             updated |-> FALSE]

\* nothing has happened: no press of Upload or Download, no call settled
NoTrace == [stopCalls |-> 0, settles |-> 0, firstFailed |-> 0,
            recorderError |-> FALSE, ticksSinceError |-> 0,
            captionsFailed |-> FALSE, setupThrew |-> FALSE, presses |-> 0]

\* nothing has run yet
Unstarted ==
  /\ pc = "idle"
  /\ isUploading = FALSE
  /\ isDownloading = FALSE
  /\ uploadError = Null
  /\ downloadError = Null
  /\ uploadSuccess = FALSE
  /\ output = NoOutput
  /\ result = NoResult
  /\ audio = "idle"
  /\ mediaElements = [i \in 1..Len(videoDetails.visuals) |-> "idle"]
  /\ recorder = [state |-> "none", queue |-> <<>>]
  /\ chunks = <<>>
  /\ playPromise = "none"
  /\ renderInterval = FALSE
  /\ frame = 0
  /\ totalFrames = 0
  /\ slideDuration = Rat(0, 1)
  /\ currentVisualIndex = -1
  /\ lastCaptionText = <<>>
  /\ captionFadeInFrames = 0
  /\ playing = {}
  /\ clipTime = [i \in 1..Len(videoDetails.visuals) |-> 0]
  /\ rendered = <<>>
  /\ lastTick = NoTick
  /\ PreviewMounted
  /\ AppStarted
  /\ ClientUnloaded
  /\ delivered = <<>>
  /\ trace = NoTrace

\* the component as mounted, before any button is pressed
Mounted ==
  /\ handler = "none"
  /\ generatedCaptions = <<>>
  /\ Unstarted

Init ==
  /\ videoDetails \in [script : Scripts, visuals : VisualLists,
                        audio : BOOLEAN, duration : Durations]
  /\ Mounted

\* long runs: one narrated script, an image followed by a motion clip, and
\* every positive duration of the general runs plus the 2-second audio
TwoSeconds == Finite(2 * FPS * SubFrames)

InitLongRun ==
  /\ videoDetails \in
       [script : {<<"I", ":", NEWLINE, QUOTE, "a", ".", " ", "b", QUOTE>>},
        visuals : {<<[name |-> 1, isVideo |-> FALSE, width |-> 1, height |-> 1],
                     [name |-> 2, isVideo |-> TRUE, width |-> 1, height |-> 1]>>},
        audio : {TRUE},
        duration : {Finite(u) : u \in 1..MaxDuration} \cup {TwoSeconds}]
  /\ Mounted

\* the script  Intro:\n"Hello world. This is a test."
HelloScript ==
  <<"I", "n", "t", "r", "o", ":", NEWLINE, QUOTE,
    "H", "e", "l", "l", "o", " ", "w", "o", "r", "l", "d", ".", " ",
    "T", "h", "i", "s", " ", "i", "s", " ", "a", " ", "t", "e", "s", "t", ".", QUOTE>>
FourSeconds == Finite(4 * FPS * SubFrames)

\* that script with 4 seconds of audio and two images
InitEndToEnd ==
  /\ videoDetails =
       [script |-> HelloScript,
        visuals |-> <<[name |-> 1, isVideo |-> FALSE, width |-> 1, height |-> 1],
                      [name |-> 2, isVideo |-> FALSE, width |-> 1, height |-> 1]>>,
        audio |-> TRUE,
        duration |-> FourSeconds]
  /\ Mounted

\* createVideoBlob called on its own (handler = "direct"), with any list of
\* images, any duration the audio element can report, and the captions of
\* the narrated script when there are any
InitDirect ==
  /\ videoDetails \in
       [script : {<<"I", ":", NEWLINE, QUOTE, "a", ".", " ", "b", QUOTE>>},
        visuals : ImageLists,
        audio : {TRUE},
        duration : Durations]
  /\ handler = "direct"
  /\ generatedCaptions =
       generateCaptions(videoDetails.script, videoDetails.duration).captions
  /\ Unstarted

\* every text of at most maxLen characters of the alphabet
Strings(alphabet, maxLen) == UNION {[1..k -> alphabet] : k \in 0..maxLen}

\* videoDetails.script: every short text with quotes and line breaks, every
\* short narration in one pair of quotes, two quoted spans with something
\* between them, and a longer narration of three sentences
CaptionScripts ==
  Strings({"a", ".", " ", QUOTE, NEWLINE}, MaxScriptLen)
    \cup {<<QUOTE>> \o body \o <<QUOTE>> :
            body \in Strings({"a", ".", "?", " "}, MaxNarrationLen)}
    \cup {<<QUOTE>> \o p[1] \o <<QUOTE>> \o p[2] \o <<QUOTE>> \o p[3] \o <<QUOTE>> :
            p \in Strings({"a", ".", " "}, 2) \X Strings({"a", NEWLINE}, 1)
                    \X Strings({"a", ".", " "}, 2)}
    \cup {<<"I", ":", " ", QUOTE, "a", "b", ".", " ", " ", "c", "!", " ", "d", QUOTE>>}

\* the uploader mounted with any of those scripts, one image and an audio
\* track of a valid duration
InitCaptions ==
  /\ videoDetails \in
       [script : CaptionScripts,
        visuals : {<<[name |-> 1, isVideo |-> FALSE, width |-> 1, height |-> 1]>>},
        audio : {TRUE},
        duration : {Finite(u) : u \in 1..MaxDuration}]
  /\ Mounted

\* one image or more, up to one more than the general runs have
SlotImages ==
  {[i \in 1..n |-> [name |-> i, isVideo |-> FALSE, width |-> 1, height |-> 1]] :
     n \in 1..(MaxVisuals + 1)}

\* createVideoBlob called on its own with those images and audio of every
\* short duration or of exactly one frame for each of the most images
InitSlots ==
  /\ videoDetails \in
       [script : {<<"I", ":", NEWLINE, QUOTE, "a", ".", " ", "b", QUOTE>>},
        visuals : SlotImages,
        audio : {TRUE},
        duration : {Finite(u) : u \in 1..MaxDuration}
                     \cup {Finite((MaxVisuals + 1) * SubFrames)}]
  /\ handler = "direct"
  /\ generatedCaptions =
       generateCaptions(videoDetails.script, videoDetails.duration).captions
  /\ Unstarted

\* createVideoBlob called on its own with one or more images or motion clips
\* and audio of the two longest durations of the general runs
InitClips ==
  /\ videoDetails \in
       [script : {<<"I", ":", NEWLINE, QUOTE, "a", ".", " ", "b", QUOTE>>},
        visuals : {v \in VisualLists : Len(v) >= 1},
        audio : {TRUE},
        duration : {Finite(u) : u \in (MaxDuration - 1)..MaxDuration}]
  /\ handler = "direct"
  /\ generatedCaptions =
       generateCaptions(videoDetails.script, videoDetails.duration).captions
  /\ Unstarted

(***************************************************************************)
(* handleUpload / handleDownload: what follows an await                    *)
(***************************************************************************)
\* catch (err) { ... setUploadError / setDownloadError } finally { flag = false }
HandlerCatch(err) ==
  /\ pc' = "done"
  /\ IF handler = "upload"
     THEN /\ uploadError' = IF err.isError THEN err
                             ELSE Err("An unknown error occurred during upload.")
          /\ isUploading' = FALSE
          /\ UNCHANGED <<downloadError, isDownloading>>
     ELSE /\ downloadError' = IF err.isError THEN err
                               ELSE Err("Failed to create video file.")
          /\ isDownloading' = FALSE
          /\ UNCHANGED <<uploadError, isUploading>>
  /\ UNCHANGED <<handler, uploadSuccess, output>>

\* const blob = await createVideoBlob(...); then uploadVideo(blob, ...) or a.click()
HandlerGotBlob(blob) ==
  /\ output' = [given |-> TRUE, blob |-> blob]
  /\ IF handler = "upload"
     THEN /\ pc' = "upload"
          /\ UNCHANGED <<isUploading, isDownloading>>
     ELSE /\ pc' = "done"
          /\ isDownloading' = FALSE
          /\ UNCHANGED isUploading
  /\ UNCHANGED <<handler, uploadError, downloadError, uploadSuccess>>

(***************************************************************************)
(* The promise of createVideoBlob: the first resolve or reject settles it, *)
(* and the awaiting handler continues in the same turn                     *)
(***************************************************************************)
resolve(blob) ==
  IF result.kind = "pending" /\ handler = "direct"
  THEN /\ result' = Resolved(blob)
       /\ UNCHANGED <<handler, pc, isUploading, isDownloading, uploadError,
                      downloadError, uploadSuccess, output>>
  ELSE IF result.kind = "pending"
  THEN result' = Resolved(blob) /\ HandlerGotBlob(blob)
  ELSE UNCHANGED <<result, handler, pc, isUploading, isDownloading, uploadError,
                   downloadError, uploadSuccess, output>>

reject(err) ==
  IF result.kind = "pending" /\ handler = "direct"
  THEN /\ result' = Rejected(err)
       /\ UNCHANGED <<handler, pc, isUploading, isDownloading, uploadError,
                      downloadError, uploadSuccess, output>>
  ELSE IF result.kind = "pending"
  THEN result' = Rejected(err) /\ HandlerCatch(err)
  ELSE UNCHANGED <<result, handler, pc, isUploading, isDownloading, uploadError,
                   downloadError, uploadSuccess, output>>

(***************************************************************************)
(* handleUpload, handleDownload up to the first await                      *)
(***************************************************************************)
\* buttons that stay enabled while a video is being made
buttonsAlwaysEnabled == ~uploadSuccess
\* disabled={isUploading || isDownloading} on Download and Upload (lines 527,
\* 554); once uploadSuccess is set the buttons are not rendered (line 402)
buttonsEnabled == ~(isUploading \/ isDownloading) /\ ~uploadSuccess

\* the first press of a button
CanPress ==
  /\ handler = "none"
  /\ buttonsEnabled

\* a later press of a button
CanPressAgain ==
  /\ handler \in {"upload", "download"}
  /\ trace.presses < MaxPresses
  /\ buttonsEnabled

MissingInputs == ~videoDetails.audio \/ Len(videoDetails.visuals) = 0

\* the handler returns before its first await: nothing is called
noCall ==
  /\ pc' = "done"
  /\ trace' = [trace EXCEPT !.presses = @ + 1]
  /\ UNCHANGED <<generatedCaptions, output, result, audio, mediaElements, recvars,
                 playPromise, renderInterval, loopvars>>

\* the handler goes on to await generateCaptions and then createVideoBlob,
\* whose locals are new in every call; the locals of an earlier call are no
\* longer followed
freshCall ==
  /\ pc' = "captions"
  /\ trace' = [NoTrace EXCEPT !.presses = trace.presses + 1]
  /\ generatedCaptions' = <<>>
  /\ output' = NoOutput
  /\ result' = NoResult
  /\ audio' = "idle"
  /\ mediaElements' = [i \in 1..Len(videoDetails.visuals) |-> "idle"]
  /\ recorder' = [state |-> "none", queue |-> <<>>]
  /\ chunks' = <<>>
  /\ delivered' = <<>>
  /\ playPromise' = "none"
  /\ renderInterval' = FALSE
  /\ frame' = 0
  /\ totalFrames' = 0
  /\ slideDuration' = Rat(0, 1)
  /\ currentVisualIndex' = -1
  /\ lastCaptionText' = <<>>
  /\ captionFadeInFrames' = 0
  /\ playing' = {}
  /\ clipTime' = [i \in 1..Len(videoDetails.visuals) |-> 0]
  /\ rendered' = <<>>
  /\ lastTick' = NoTick

\* handleUpload up to its first await: lines 340-353
pressUpload ==
  /\ handler' = "upload"
  /\ IF MissingInputs
     THEN /\ uploadError' =
               Err("Both audio and at least one visual are required to create a video.")
          /\ noCall
          /\ UNCHANGED <<isUploading, downloadError>>
     ELSE /\ isUploading' = TRUE
          /\ uploadError' = Null
          /\ downloadError' = Null
          /\ freshCall
  /\ UNCHANGED <<videoDetails, preview, app, isDownloading, uploadSuccess>>

\* handleDownload up to its first await: lines 370-381
pressDownload ==
  /\ handler' = "download"
  /\ IF MissingInputs
     THEN /\ downloadError' =
               Err("Both audio and at least one visual are required to create a video.")
          /\ noCall
          /\ UNCHANGED <<isDownloading, uploadError>>
     ELSE /\ isDownloading' = TRUE
          /\ downloadError' = Null
          /\ uploadError' = Null
          /\ freshCall
  /\ UNCHANGED <<videoDetails, preview, app, isUploading, uploadSuccess>>

handleUpload == CanPress /\ pressUpload

handleDownload == CanPress /\ pressDownload

\* Upload or Download pressed once more
handleUploadAgain == CanPressAgain /\ pressUpload

handleDownloadAgain == CanPressAgain /\ pressDownload

(***************************************************************************)
(* await generateCaptions(...), then the call of createVideoBlob           *)
(***************************************************************************)
\* generateCaptions' audio.onloadedmetadata fires.  On resolve the handler
\* calls createVideoBlob, whose executor runs up to audio.load().
captionsLoaded ==
  /\ pc = "captions"
  /\ LET outcome == generateCaptions(videoDetails.script, videoDetails.duration)
     IN IF outcome.ok
        THEN /\ generatedCaptions' = outcome.captions
             /\ \E ctxOk \in BOOLEAN :
                  IF ctxOk
                  THEN /\ result' = Pending
                       /\ audio' = "loading"
                       /\ pc' = "blob"
                       /\ UNCHANGED <<handler, isUploading, isDownloading, uploadError,
                                      downloadError, uploadSuccess, output>>
                  ELSE /\ result' = Rejected(Err("Cannot get canvas context"))
                       /\ HandlerCatch(Err("Cannot get canvas context"))
                       /\ UNCHANGED audio
             /\ UNCHANGED trace
        ELSE /\ HandlerCatch(Err(outcome.error))
             /\ trace' = [trace EXCEPT !.captionsFailed = TRUE]
             /\ UNCHANGED <<generatedCaptions, result, audio>>
  /\ UNCHANGED <<videoDetails, preview, app, mediaElements, recvars, playPromise, renderInterval,
                 loopvars>>

\* generateCaptions' audio.onerror fires
captionsAudioError ==
  /\ pc = "captions"
  /\ HandlerCatch(Err("Failed to load audio for caption generation."))
  /\ trace' = [trace EXCEPT !.captionsFailed = TRUE]
  /\ UNCHANGED <<videoDetails, preview, app, generatedCaptions, result, audio, mediaElements, recvars,
                 playPromise, renderInterval, loopvars>>

\* uploadVideo(blob, ...) resolves with a video id or rejects
uploadFinished ==
  /\ pc = "upload"
  /\ pc' = "done"
  /\ isUploading' = FALSE
  /\ \E ok \in BOOLEAN :
       IF ok THEN uploadSuccess' = TRUE /\ UNCHANGED uploadError
       ELSE uploadError' = Err("Upload failed") /\ UNCHANGED uploadSuccess
  /\ UNCHANGED <<videoDetails, preview, app, handler, isDownloading, downloadError, generatedCaptions,
                 output, result, audio, mediaElements, recvars, playPromise,
                 renderInterval, loopvars, trace>>

(***************************************************************************)
(* createVideoBlob: audio metadata, the visual loads, the recorder set-up  *)
(***************************************************************************)
isVideo(index) ==
  /\ index + 1 \in 1..Len(videoDetails.visuals)
  /\ videoDetails.visuals[index + 1].isVideo

\* Math.ceil(duration * 30)
ceilFrames(duration) == (duration.units + SubFrames - 1) \div SubFrames

\* a join that is fulfilled by the first load to succeed
someLoaded(elements) == \E i \in DOMAIN elements : elements[i] = "loaded"

\* await Promise.all(...): fulfilled once every visual load has succeeded
allLoaded(elements) == \A i \in DOMAIN elements : elements[i] = "loaded"

\* lines 110-135: captureStream, AudioContext, new MediaRecorder and its
\* handlers, recorder.start(), audio.play(), the loop state, setInterval.
\* Any of the constructors or start() may throw: catch (err) { reject(err) }.
startRecording ==
  \E setupOk \in BOOLEAN :
    IF setupOk
    THEN /\ recorder' = [state |-> "recording", queue |-> <<>>]
         /\ chunks' = <<>>
         /\ playPromise' = "pending"
         /\ frame' = 0
         /\ totalFrames' = ceilFrames(videoDetails.duration)
         /\ currentVisualIndex' = -1
         /\ lastCaptionText' = <<>>
         /\ captionFadeInFrames' = 0
         /\ renderInterval' = TRUE
         /\ UNCHANGED <<result, hvars, trace>>
    ELSE /\ reject(Err("NotSupportedError"))
         /\ trace' = [trace EXCEPT !.setupThrew = TRUE]
         /\ UNCHANGED <<recorder, chunks, playPromise, frame, totalFrames,
                        currentVisualIndex, lastCaptionText, captionFadeInFrames,
                        renderInterval, generatedCaptions>>

\* createVideoBlob(visuals, audioDataUrl, captions) called on its own: the
\* executor, lines 74-81 and 250-252
createVideoBlob ==
  /\ handler = "direct"
  /\ result.kind = "none"
  /\ \E ctxOk \in BOOLEAN :
       IF ctxOk
       THEN result' = Pending /\ audio' = "loading"
       ELSE result' = Rejected(Err("Cannot get canvas context")) /\ UNCHANGED audio
  /\ UNCHANGED <<videoDetails, preview, app, hvars, mediaElements, recvars, playPromise,
                 renderInterval, loopvars, trace>>

\* slots of half the length
slideDurationHalved(duration, n) ==
  Rat(Seconds(duration).n, Seconds(duration).d * n * 2)
\* const slideDuration = duration / visuals.length
slideDurationOf(duration, n) ==
  Rat(Seconds(duration).n, Seconds(duration).d * n)

\* audio 'loadedmetadata': onAudioLoad up to the await of Promise.all
onAudioLoad ==
  /\ audio = "loading"
  /\ audio' = "loaded"
  /\ LET duration == videoDetails.duration
         n == Len(videoDetails.visuals)
     IN IF invalidDuration(duration)
        THEN /\ reject(Err("Invalid audio duration."))
             /\ UNCHANGED <<generatedCaptions, mediaElements, recvars, playPromise,
                            renderInterval, loopvars, trace>>
        ELSE /\ slideDuration' = slideDurationOf(duration, n)
             /\ mediaElements' = [i \in 1..n |-> "loading"]
             /\ UNCHANGED <<playing, clipTime, rendered, lastTick, delivered>>
             /\ IF n = 0
                THEN startRecording
                ELSE UNCHANGED <<result, hvars, recorder, chunks, playPromise,
                                 renderInterval, frame, totalFrames, currentVisualIndex,
                                 lastCaptionText, captionFadeInFrames, trace>>
  /\ UNCHANGED <<videoDetails, preview, app>>

\* audio 'error'
onAudioError ==
  /\ audio = "loading"
  /\ audio' = "error"
  /\ reject(Err("Failed to load audio metadata."))
  /\ UNCHANGED <<videoDetails, preview, app, generatedCaptions, mediaElements, recvars, playPromise,
                 renderInterval, loopvars, trace>>

\* video.onloadeddata / img.onload of visual i: res(element); when it is the
\* last one, Promise.all is fulfilled and onAudioLoad continues
visualLoaded(i) ==
  /\ mediaElements[i] = "loading"
  /\ mediaElements' = [mediaElements EXCEPT ![i] = "loaded"]
  /\ IF allLoaded(mediaElements')
     THEN startRecording
     ELSE UNCHANGED <<result, hvars, recorder, chunks, playPromise, renderInterval,
                      frame, totalFrames, currentVisualIndex, lastCaptionText,
                      captionFadeInFrames, trace>>
  /\ UNCHANGED <<videoDetails, preview, app, audio, slideDuration, playing, clipTime, rendered,
                 lastTick, delivered>>

\* video.onerror / img.onerror of visual i: rej(Error naming v.name); the
\* first rejection rejects Promise.all, which the catch turns into reject(err)
visualError(i) ==
  /\ mediaElements[i] = "loading"
  /\ mediaElements' = [mediaElements EXCEPT ![i] = "failed"]
  /\ IF \A j \in DOMAIN mediaElements : mediaElements[j] # "failed"
     THEN /\ reject(VisualErr(videoDetails.visuals[i].name))
          /\ trace' = [trace EXCEPT !.firstFailed = i]
          /\ UNCHANGED generatedCaptions
     ELSE UNCHANGED <<result, hvars, trace>>
  /\ UNCHANGED <<videoDetails, preview, app, audio, recvars, playPromise, renderInterval, loopvars>>

\* the promise of audio.play() settles; .catch(e => reject(...))
playSettled ==
  /\ playPromise = "pending"
  /\ \E started \in BOOLEAN :
       IF started
       THEN playPromise' = "started" /\ UNCHANGED <<result, hvars>>
       ELSE /\ playPromise' = "failed"
            /\ reject(Err("Audio playback failed to start."))
            /\ UNCHANGED generatedCaptions
  /\ UNCHANGED <<videoDetails, preview, app, audio, mediaElements, recvars, renderInterval,
                 loopvars, trace>>

(***************************************************************************)
(* The render loop: the body of setInterval(..., 1000 / 30)                *)
(***************************************************************************)
Min(a, b) == IF a <= b THEN a ELSE b

\* the loop bound taken exclusive
loopFinishedEarly(f, total) == f >= total

\* if (frame > totalFrames)
loopFinished(f, total) == f > total

\* a frame counter that advances by two
nextFrameSkipping(f) == f + 2

\* frame++
nextFrame(f) == f + 1

\* the quotient without the clamp to the last visual
activeVisualIndexUnclamped(currentTime, slide, n) ==
  IF n = 0 THEN Min(0, n - 1)
  ELSE RatFloorDiv(currentTime, slide)
\* Math.min(Math.floor(currentTime / slideDuration), mediaElements.length - 1);
\* with no visuals slideDuration is Infinity and the quotient 0
activeVisualIndex(currentTime, slide, n) ==
  IF n = 0 THEN Min(0, n - 1)
  ELSE Min(RatFloorDiv(currentTime, slide), n - 1)

\* a lookup whose intervals include their end
activeCaptionTextClosed(captions, currentTime) ==
  LET hits == {i \in 1..Len(captions) :
                 /\ RatLeq(captions[i].start, currentTime)
                 /\ RatLeq(currentTime, captions[i].end)}
  IN IF hits = {} THEN <<>>
     ELSE captions[CHOOSE i \in hits : \A j \in hits : i <= j].text
\* captions.find(c => currentTime >= c.start && currentTime < c.end)?.text || ''
activeCaptionText(captions, currentTime) ==
  LET hits == {i \in 1..Len(captions) :
                 /\ RatLeq(captions[i].start, currentTime)
                 /\ RatLess(currentTime, captions[i].end)}
  IN IF hits = {} THEN <<>>
     ELSE captions[CHOOSE i \in hits : \A j \in hits : i <= j].text

\* a fade that is linear in the counter
captionAlphaLinear(r) ==
  IF r > 0
  THEN Rat(FADE_DURATION_FRAMES - r, FADE_DURATION_FRAMES)
  ELSE Rat(1, 1)
\* ctx.globalAlpha of the caption drawn with the fade counter at r
captionAlpha(r) ==
  IF r > 0
  THEN Rat((FADE_DURATION_FRAMES - r) * (FADE_DURATION_FRAMES - r),
           FADE_DURATION_FRAMES * FADE_DURATION_FRAMES)
  ELSE Rat(1, 1)

\* the clips that are playing move on by one frame between two ticks
advance(positions, clips) ==
  [i \in DOMAIN positions |->
     IF (i - 1) \in clips THEN positions[i] + 1 ELSE positions[i]]

\* a call on the motion clip of a visual, and the clip's position at the call
ClipCall(op, index, positions) == [op |-> op, clip |-> index, at |-> positions[index + 1]]

\* mediaElements.forEach(m => { if (m instanceof HTMLVideoElement) m.pause() })
pauseAll ==
  LET RECURSIVE Go(_)
      Go(i) == IF i > Len(videoDetails.visuals) THEN <<>>
               ELSE IF isVideo(i - 1)
                    THEN <<ClipCall("pause", i - 1, advance(clipTime, playing))>> \o Go(i + 1)
                    ELSE Go(i + 1)
  IN Go(1)

\* the final tick without the pause of the motion clips
finishLoopNoPause ==
  /\ renderInterval' = FALSE
  /\ IF recorder.state = "recording"
     THEN /\ recorder' = [state |-> "inactive", queue |-> <<"dataavailable", "stop">>]
          /\ trace' = [trace EXCEPT
                         !.stopCalls = @ + 1,
                         !.ticksSinceError =
                            IF trace.recorderError THEN Min(@ + 1, 2) ELSE @]
     ELSE /\ UNCHANGED recorder
          /\ trace' = [trace EXCEPT
                         !.ticksSinceError =
                            IF trace.recorderError THEN Min(@ + 1, 2) ELSE @]
  /\ clipTime' = advance(clipTime, playing)
  /\ lastTick' = [NoTick EXCEPT !.drew = FALSE]
  /\ UNCHANGED <<frame, totalFrames, slideDuration, currentVisualIndex,
                 lastCaptionText, captionFadeInFrames, rendered, playing>>

\* the tick that finds frame > totalFrames: lines 136-144
finishLoop ==
  /\ renderInterval' = FALSE
  /\ IF recorder.state = "recording"
     THEN /\ recorder' = [state |-> "inactive", queue |-> <<"dataavailable", "stop">>]
          /\ trace' = [trace EXCEPT
                         !.stopCalls = @ + 1,
                         !.ticksSinceError =
                            IF trace.recorderError THEN Min(@ + 1, 2) ELSE @]
     ELSE /\ UNCHANGED recorder
          /\ trace' = [trace EXCEPT
                         !.ticksSinceError =
                            IF trace.recorderError THEN Min(@ + 1, 2) ELSE @]
  /\ playing' = {}
  /\ clipTime' = advance(clipTime, playing)
  /\ lastTick' = [NoTick EXCEPT !.drew = FALSE, !.calls = pauseAll]
  /\ UNCHANGED <<frame, totalFrames, slideDuration, currentVisualIndex,
                 lastCaptionText, captionFadeInFrames, rendered>>

\* if (media) { ... if (mediaWidth > 0) { ... ctx.drawImage(...) } }
drawsMedia(visualIndex) ==
  /\ visualIndex + 1 \in 1..Len(videoDetails.visuals)
  /\ videoDetails.visuals[visualIndex + 1].width > 0

\* leaving a clip without pausing it
pauseNone(clips, index) == clips
\* prevMedia.pause()
pause(clips, index) == clips \ {index}

\* leaving a clip without rewinding it
pauseOnly(positions, index) == positions
\* prevMedia.currentTime = 0
rewind(positions, index) == [positions EXCEPT ![index + 1] = 0]

\* a counter that starts the fade only for a caption, not for the gap after it
fadeAfterCaption(currentCaptionText, lastText, counter) ==
  IF currentCaptionText # lastText /\ currentCaptionText # <<>>
  THEN FADE_DURATION_FRAMES ELSE counter
\* if (currentCaptionText !== lastCaptionText) captionFadeInFrames = FADE_DURATION_FRAMES
fadeAfterChange(currentCaptionText, lastText, counter) ==
  IF currentCaptionText # lastText THEN FADE_DURATION_FRAMES ELSE counter

\* a tick that draws a frame: lines 146-242; the visual index, the caption
\* text and the clip positions of the tick are each computed once
drawFrame ==
  \E visualIndex \in {activeVisualIndex(Rat(frame, FPS), slideDuration, Len(mediaElements))},
     currentCaptionText \in {activeCaptionText(generatedCaptions, Rat(frame, FPS))},
     moved \in {advance(clipTime, playing)} :
  LET currentTime == Rat(frame, FPS)
      changed == visualIndex # currentVisualIndex
      leaves == changed /\ isVideo(currentVisualIndex)
      enters == changed /\ isVideo(visualIndex)
      paused == IF leaves THEN pause(playing, currentVisualIndex) ELSE playing
      left == IF leaves THEN rewind(moved, currentVisualIndex) ELSE moved
      fade == fadeAfterChange(currentCaptionText, lastCaptionText, captionFadeInFrames)
  IN /\ currentVisualIndex' = visualIndex
     /\ playing' = IF enters THEN paused \cup {visualIndex} ELSE paused
     /\ clipTime' = left
     /\ lastCaptionText' = currentCaptionText
     /\ captionFadeInFrames' =
          IF currentCaptionText # <<>> /\ fade > 0 THEN fade - 1 ELSE fade
     /\ rendered' = Append(rendered,
                           [frame |-> frame, time |-> currentTime,
                            visual |-> visualIndex,
                            drawn |-> drawsMedia(visualIndex),
                            caption |-> currentCaptionText,
                            alpha |-> IF currentCaptionText # <<>>
                                      THEN captionAlpha(fade) ELSE Rat(1, 1)])
     /\ lastTick' =
          [drew |-> TRUE,
           calls |-> (IF leaves
                      THEN <<ClipCall("pause", currentVisualIndex, moved),
                             ClipCall("rewind", currentVisualIndex, left)>>
                      ELSE <<>>)
                     \o (IF enters THEN <<ClipCall("play", visualIndex, left)>>
                         ELSE <<>>),
           rect |-> IF drawsMedia(visualIndex)
                    THEN coverFit(videoDetails.visuals[visualIndex + 1].width,
                                  videoDetails.visuals[visualIndex + 1].height)
                    ELSE NoRect,
           lines |-> IF currentCaptionText # <<>>
                     THEN captionLines(currentCaptionText) ELSE <<>>]
     /\ frame' = nextFrame(frame)
     /\ trace' = [trace EXCEPT
                    !.ticksSinceError =
                       IF trace.recorderError THEN Min(@ + 1, 2) ELSE @]
     /\ UNCHANGED <<renderInterval, recorder, totalFrames, slideDuration>>

tick ==
  /\ renderInterval
  /\ IF loopFinished(frame, totalFrames) THEN finishLoop ELSE drawFrame
  /\ UNCHANGED <<videoDetails, preview, app, hvars, result, audio, mediaElements, chunks, delivered,
                 playPromise>>

(***************************************************************************)
(* The MediaRecorder and its three handlers                                *)
(***************************************************************************)
\* a handler that keeps empty chunks too
ondataavailableAll(data) == Append(chunks, data)

\* recorder.ondataavailable = e => e.data.size > 0 && chunks.push(e.data)
ondataavailable(data) == IF data.size > 0 THEN Append(chunks, data) ELSE chunks

\* a stop handler that never resolves
onstopLost ==
  UNCHANGED <<result, handler, pc, isUploading, isDownloading, uploadError,
              downloadError, uploadSuccess, output>>

\* recorder.onstop = () => resolve(new Blob(chunks, ...))
onstop == resolve(chunks)

\* a recorder without an error handler
onerrorIgnored(e) ==
  UNCHANGED <<result, handler, pc, isUploading, isDownloading, uploadError,
              downloadError, uploadSuccess, output>>

\* recorder.onerror = e => reject(e)
onerror(e) == reject(e)

Chunk(size) == [id |-> Len(delivered) + 1, size |-> size]

\* the encoder hands over a chunk while the recorder is recording
encoderData ==
  /\ recorder.state = "recording"
  /\ Len(delivered) < MaxChunks
  /\ \E size \in 0..1 :
       /\ delivered' = Append(delivered, Chunk(size))
       /\ chunks' = ondataavailable(Chunk(size))
  /\ UNCHANGED <<videoDetails, preview, app, hvars, result, audio, mediaElements, recorder,
                 playPromise, renderInterval, loopvars, trace>>

\* the encoder fails: the recorder goes inactive and queues error,
\* dataavailable and stop, in that order
encoderFails ==
  /\ recorder.state = "recording"
  /\ recorder' = [state |-> "inactive", queue |-> <<"error", "dataavailable", "stop">>]
  /\ UNCHANGED <<videoDetails, preview, app, hvars, result, audio, mediaElements, chunks, delivered,
                 playPromise, renderInterval, loopvars, trace>>

\* the next queued recorder event is dispatched to its handler
recorderEvent ==
  /\ recorder.queue # <<>>
  /\ recorder' = [recorder EXCEPT !.queue = Tail(@)]
  /\ LET event == Head(recorder.queue)
     IN CASE event = "error" ->
               /\ onerror(RecorderErrorEvent)
               /\ trace' = [trace EXCEPT !.recorderError = TRUE]
               /\ UNCHANGED <<generatedCaptions, chunks, delivered>>
          [] event = "dataavailable" ->
               /\ \E size \in 0..1 :
                    /\ delivered' = Append(delivered, Chunk(size))
                    /\ chunks' = ondataavailable(Chunk(size))
               /\ UNCHANGED <<result, hvars, trace>>
          [] event = "stop" ->
               /\ onstop
               /\ UNCHANGED <<generatedCaptions, chunks, delivered, trace>>
  /\ UNCHANGED <<videoDetails, preview, app, audio, mediaElements, playPromise, renderInterval,
                 loopvars>>

(***************************************************************************)
(* Specification                                                           *)
(***************************************************************************)
(***************************************************************************)
(* The live preview: lines 281-313 and 399-401                             *)
(***************************************************************************)
\* the caption effect settles: .then(setCaptions), or the catch that shows
\* the title when generateCaptions rejects (its duration check, or the
\* audio's error event)
captionEffect ==
  /\ preview.effect = "pending"
  /\ \E audioOk \in BOOLEAN :
       LET outcome == generateCaptions(videoDetails.script, videoDetails.duration)
       IN IF audioOk /\ outcome.ok
          THEN preview' = [preview EXCEPT !.effect = "resolved",
                                          !.captions = outcome.captions]
          ELSE preview' = [preview EXCEPT !.effect = "rejected",
                                          !.currentCaption = title]
  /\ UNCHANGED <<synthesis, app>>

\* a preview index that rounds the quotient
previewVisualIndexRounded(time, duration, n, currentIndex) ==
  IF isFinite(duration) /\ n > 0
  THEN Min(RatRoundDiv(time, Rat(Seconds(duration).n, Seconds(duration).d * n)), n - 1)
  ELSE currentIndex
\* lines 299-305: the index the preview shows after an update at time
previewVisualIndex(time, duration, n, currentIndex) ==
  IF isFinite(duration) /\ n > 0
  THEN Min(RatFloorDiv(time, Rat(Seconds(duration).n, Seconds(duration).d * n)), n - 1)
  ELSE currentIndex

\* lines 308-312: the caption the preview shows after an update at time
previewCaption(time, captions, currentCaption) ==
  IF Len(captions) > 0
  THEN LET hits == {i \in 1..Len(captions) :
                      /\ RatLeq(captions[i].start, time)
                      /\ RatLess(time, captions[i].end)}
       IN IF hits = {} THEN <<>>
          ELSE captions[CHOOSE i \in hits : \A j \in hits : i <= j].text
  ELSE currentCaption

\* audio.currentTime when the preview's audio element fires 'timeupdate' or
\* 'play': 0 while the duration is not known, else a time up to the duration
PreviewTimes ==
  IF isFinite(videoDetails.duration)
  THEN {Rat(k, FPS * SubFrames) : k \in 0..videoDetails.duration.units}
  ELSE {Rat(0, FPS * SubFrames)}

\* 'timeupdate' / 'play' of the preview's audio element
updateVisualAndCaption ==
  /\ videoDetails.audio
  /\ \E time \in PreviewTimes :
       preview' = [preview EXCEPT
                     !.currentVisualIndex =
                        previewVisualIndex(time, videoDetails.duration,
                                           Len(videoDetails.visuals), @),
                     !.currentCaption = previewCaption(time, preview.captions, @),
                     !.time = time,
                     !.updated = TRUE]
  /\ UNCHANGED <<synthesis, app>>

\* 'ended' of the preview's audio element
resetState ==
  /\ videoDetails.audio
  /\ isFinite(videoDetails.duration)
  /\ preview' = [preview EXCEPT
                   !.currentVisualIndex = 0,
                   !.currentCaption = IF Len(preview.captions) > 0
                                      THEN preview.captions[1].text ELSE <<>>,
                   !.updated = FALSE]
  /\ UNCHANGED <<synthesis, app>>

\* an overlay that shows the title whenever no caption is active
captionOrTitleAlways ==
  IF preview.currentCaption # <<>> THEN preview.currentCaption ELSE title
\* const captionOrTitle = currentCaption || (captions.length === 0 ? title : '')
captionOrTitle ==
  IF preview.currentCaption # <<>> THEN preview.currentCaption
  ELSE IF Len(preview.captions) = 0 THEN title ELSE <<>>

\* the uploader mounted with any script (none included), any visuals, with or
\* without audio, of a valid or a not yet known duration
InitPreview ==
  /\ videoDetails \in
       [script : Scripts \cup {<<>>},
        visuals : VisualLists,
        audio : BOOLEAN,
        duration : {[kind |-> "NaN", units |-> 0]}
                     \cup {Finite(u) : u \in 1..MaxDuration}]
  /\ Mounted

NextPreview ==
  \/ captionEffect
  \/ updateVisualAndCaption
  \/ resetState

SpecPreview == InitPreview /\ [][NextPreview]_vars


Next ==
  \/ handleUpload
  \/ handleDownload
  \/ captionsLoaded
  \/ captionsAudioError
  \/ uploadFinished
  \/ onAudioLoad
  \/ onAudioError
  \/ \E i \in DOMAIN mediaElements : visualLoaded(i)
  \/ \E i \in DOMAIN mediaElements : visualError(i)
  \/ playSettled
  \/ tick
  \/ encoderData
  \/ encoderFails
  \/ recorderEvent

Spec == Init /\ [][Next]_vars

SpecLongRun == InitLongRun /\ [][Next]_vars

\* the uploader mounted with no visual or one image and an audio track whose
\* duration is one time unit or cannot be read
InitButtons ==
  /\ videoDetails \in
       [script : {<<"I", ":", NEWLINE, QUOTE, "a", ".", " ", "b", QUOTE>>},
        visuals : {<<>>, <<[name |-> 1, isVideo |-> FALSE, width |-> 1, height |-> 1]>>},
        audio : {TRUE},
        duration : {[kind |-> "NaN", units |-> 0], Finite(1)}]
  /\ Mounted

\* the buttons pressed again and again
NextButtons ==
  \/ Next
  \/ handleUploadAgain
  \/ handleDownloadAgain

SpecButtons == InitButtons /\ [][NextButtons]_vars

\* the handlers up to the end of generateCaptions
NextCaptions ==
  \/ handleUpload
  \/ handleDownload
  \/ captionsLoaded
  \/ captionsAudioError

SpecCaptions == InitCaptions /\ [][NextCaptions]_vars

\* createVideoBlob on its own
NextDirect ==
  \/ createVideoBlob
  \/ onAudioLoad
  \/ onAudioError
  \/ \E i \in DOMAIN mediaElements : visualLoaded(i)
  \/ \E i \in DOMAIN mediaElements : visualError(i)
  \/ playSettled
  \/ tick
  \/ encoderData
  \/ encoderFails
  \/ recorderEvent

SpecDirect == InitDirect /\ [][NextDirect]_vars

SpecClips == InitClips /\ [][NextDirect]_vars

SpecSlots == InitSlots /\ [][NextDirect]_vars

\* runs with inputs that pass the handlers' checks: at least one visual and
\* audio of a positive duration (the longest of the general runs)
InitValid ==
  /\ videoDetails \in
       [script : {<<"I", ":", NEWLINE, QUOTE, "a", ".", " ", "b", QUOTE>>},
        visuals : {v \in VisualLists : Len(v) >= 1},
        audio : {TRUE},
        duration : {Finite(MaxDuration)}]
  /\ Mounted

\* setInterval keeps firing while the timer is armed, queued recorder events
\* are dispatched, and the audio and every visual end their load one way or
\* the other
Fairness ==
  /\ WF_vars(tick)
  /\ WF_vars(recorderEvent)
  /\ WF_vars(onAudioLoad \/ onAudioError)
  /\ WF_vars(\E i \in DOMAIN mediaElements : visualLoaded(i) \/ visualError(i))

FairSpec == InitValid /\ [][Next]_vars /\ Fairness

SpecEndToEnd == InitEndToEnd /\ [][Next]_vars

(***************************************************************************)
(* Properties                                                              *)
(***************************************************************************)
Started == recorder.state # "none"
LoopStopped == Started /\ ~renderInterval
Settled == result.kind \in {"blob", "error"}
NonEmpty(c) == c.size > 0

\* C1: the caller receives either a container assembled after the compositor
\* has rendered its last frame, or an error with no binary result; once the
\* recorder has reported an error or audio playback has failed to start, no
\* later stop event delivers a blob, and the result is settled at most once.
NoPartialResult ==
  /\ [](result.kind = "blob" =>
          /\ LoopStopped
          /\ Len(rendered) = totalFrames + 1
          /\ ~trace.recorderError)
  /\ [](output.given => result.kind = "blob" /\ output.blob = result.blob)
  /\ [][(trace.recorderError \/ playPromise = "failed") /\ result.kind # "blob"
           => result'.kind # "blob"]_vars
  /\ [][Settled => result' = result]_vars

\* the recorder reported an error with chunks accumulated, its stop event
\* has been dispatched, and the run ended with the error
NoPartialResultWitness ==
  /\ trace.recorderError
  /\ recorder.queue = <<>>
  /\ chunks # <<>>
  /\ result.kind = "error"
  /\ ~output.given

\* C2: after the recorder has reported an error, the render loop stops on
\* the same or the next timer tick: no tick after that one renders a frame.
ErrorStopsLoop ==
  [][trace.recorderError /\ trace.ticksSinceError >= 1 => rendered' = rendered]_vars

\* C3: the recorder is started and the first frame is rendered only after
\* every visual load has succeeded and the audio duration is available, and
\* the recorder is started before the first frame is rendered.
StartAfterAllLoads ==
  /\ Started =>
       /\ audio = "loaded"
       /\ isFinite(videoDetails.duration)
       /\ \A i \in DOMAIN mediaElements : mediaElements[i] = "loaded"
  /\ (renderInterval \/ rendered # <<>>) => Started

\* a frame has been rendered in a run with at least two visuals
StartAfterAllLoadsWitness ==
  /\ Len(mediaElements) >= 2
  /\ rendered # <<>>

\* C4: if a visual fails to load, the run fails with the load error naming
\* a visual that failed (the one that failed, when it is the only one), the
\* recorder is never started, no frame is rendered and no container is
\* returned, however the other loads end.
VisualFailureAborts ==
  (\E i \in DOMAIN mediaElements : mediaElements[i] = "failed") =>
    /\ result.kind = "error"
    /\ result.error.msg = "Failed to load visual"
    /\ \E i \in DOMAIN mediaElements :
          /\ mediaElements[i] = "failed"
          /\ result.error.name = videoDetails.visuals[i].name
    /\ ~Started
    /\ rendered = <<>>
    /\ ~output.given

\* one visual has failed after another one has loaded
VisualFailureAbortsWitness ==
  \E i, j \in DOMAIN mediaElements :
    /\ mediaElements[i] = "failed"
    /\ mediaElements[j] = "loaded"
    /\ pc = "done"

\* C5: a run renders exactly totalFrames + 1 frames, numbered 0..totalFrames,
\* where totalFrames is the least integer >= duration * 30 (61 frames for the
\* 2-second audio), and stops at the first tick where frame > totalFrames.
ExactFrameCount ==
  /\ Started =>
       /\ totalFrames * SubFrames >= videoDetails.duration.units
       /\ (totalFrames - 1) * SubFrames < videoDetails.duration.units
       /\ frame <= totalFrames + 1
  /\ LoopStopped =>
       /\ frame = totalFrames + 1
       /\ Len(rendered) = totalFrames + 1
       /\ \A k \in 1..Len(rendered) : rendered[k].frame = k - 1
       /\ videoDetails.duration = TwoSeconds => Len(rendered) = 2 * FPS + 1

\* the loop of the 2-second run has stopped
ExactFrameCountWitness ==
  /\ LoopStopped
  /\ videoDetails.duration = TwoSeconds
  /\ Len(rendered) = 2 * FPS + 1

\* C6: frames are composited in strictly increasing frame-number order, one
\* per tick, each numbered one more than the previous, with t = frame/30
\* strictly increasing; none is skipped, repeated or out of order.
FramesInOrder ==
  /\ [](\A k \in 1..Len(rendered) :
          /\ rendered[k].frame = k - 1
          /\ rendered[k].time.n * FPS = rendered[k].frame * rendered[k].time.d
          /\ k > 1 => RatLess(rendered[k - 1].time, rendered[k].time))
  /\ [][rendered' # rendered =>
           /\ Len(rendered') = Len(rendered) + 1
           /\ SubSeq(rendered', 1, Len(rendered)) = rendered
           /\ rendered'[Len(rendered')].frame = frame
           /\ frame' = frame + 1]_vars

\* three frames rendered with a recorder event between the ticks
FramesInOrderWitness ==
  /\ Len(rendered) >= 3
  /\ delivered # <<>>
  /\ renderInterval

\* C7: the tick that finds frame > totalFrames cancels the timer, pauses every
\* motion clip and stops the recorder; the recorder is stopped at most once
\* per run, and no frame is rendered on or after that tick.
LoopEndsOnce ==
  /\ [](LoopStopped =>
          /\ playing = {}
          /\ recorder.state = "inactive"
          /\ frame = totalFrames + 1)
  /\ [](trace.stopCalls <= 1)
  /\ [][renderInterval /\ ~renderInterval' =>
           /\ frame > totalFrames
           /\ rendered' = rendered
           /\ recorder.state = "recording" =>
                 /\ trace'.stopCalls = trace.stopCalls + 1
                 /\ recorder'.queue = <<"dataavailable", "stop">>]_vars
  /\ [][LoopStopped =>
           /\ ~renderInterval'
           /\ rendered' = rendered
           /\ playing' = playing
           /\ trace'.stopCalls = trace.stopCalls]_vars

\* the loop has stopped the recorder while a motion clip was the last visual
LoopEndsOnceWitness ==
  /\ LoopStopped
  /\ trace.stopCalls = 1
  /\ isVideo(currentVisualIndex)

\* what can keep a started synthesis from returning a container
Faulted ==
  \/ audio = "error"
  \/ ~isFinite(videoDetails.duration) \/ videoDetails.duration.units = 0
  \/ \E i \in DOMAIN mediaElements : mediaElements[i] = "failed"
  \/ trace.setupThrew
  \/ playPromise = "failed"
  \/ trace.recorderError
  \/ \E k \in 1..Len(recorder.queue) : recorder.queue[k] = "error"

\* C8: with fair delivery of ticks, loads and recorder events every started
\* synthesis is eventually settled, with a container unless a load, the
\* set-up, the playback or the encoder failed; a handler never finishes with
\* neither a container nor an error.
RunCompletes ==
  /\ (pc = "blob") ~> Settled
  /\ (pc = "blob") ~> (result.kind = "blob" \/ Faulted)
  /\ [](pc = "done" =>
          \/ output.given
          \/ uploadError # Null
          \/ downloadError # Null)
  /\ [](pc \in {"upload", "done"} /\ result.kind # "none" => Settled)

\* a download has finished with a container
RunCompletesWitness ==
  /\ handler = "download"
  /\ pc = "done"
  /\ result.kind = "blob"
  /\ output.given
  /\ ~Faulted

\* C9: the returned container is the concatenation, in delivery order, of
\* every non-empty chunk delivered before the stop event, and it is built
\* only after the compositor has signalled completion.
ContainerIsAllChunks ==
  /\ chunks = SelectSeq(delivered, NonEmpty)
  /\ result.kind = "blob" =>
       /\ result.blob = SelectSeq(delivered, NonEmpty)
       /\ recorder.queue = <<>>
       /\ LoopStopped
       /\ trace.stopCalls = 1

\* a container of two chunks, returned although an empty chunk was delivered
ContainerIsAllChunksWitness ==
  /\ result.kind = "blob"
  /\ Len(result.blob) >= 2
  /\ \E k \in 1..Len(delivered) : delivered[k].size = 0

\* C10: a failure of caption estimation does not abort the run: createVideoBlob
\* is still called, with an empty caption list.
CaptionFailureDegrades ==
  trace.captionsFailed =>
    /\ result.kind # "none"
    /\ generatedCaptions = <<>>

(***************************************************************************)
(* createVideoBlob called on its own                                       *)
(***************************************************************************)

\* C11: a run whose visual loaded with decoded width 0 does not return a
\* container: every frame of a returned container has its active visual
\* drawn.  The draw step skips drawImage when mediaWidth is 0 and the run
\* carries on, so this is violated.
UndrawableVisualFails ==
  result.kind = "blob" =>
    \A k \in DOMAIN rendered : rendered[k].visual >= 0 => rendered[k].drawn

\* C12: whenever the audio duration is not finite or is zero (an audio
\* element reports no negative duration), caption estimation rejects with its
\* invalid-duration error and no captions for every script, and synthesis
\* starts no recorder and no loop, renders no frame, returns no container and,
\* once the audio metadata is there, has rejected with "Invalid audio
\* duration.".
InvalidDurationFails ==
  LET duration == videoDetails.duration
  IN (~isFinite(duration) \/ duration.units <= 0) =>
       /\ \A script \in Scripts :
            LET outcome == generateCaptions(script, duration)
            IN /\ ~outcome.ok
               /\ outcome.error = "Invalid audio duration for caption generation."
               /\ outcome.captions = <<>>
       /\ rendered = <<>>
       /\ ~renderInterval
       /\ recorder.state = "none"
       /\ result.kind # "blob"
       /\ audio = "loaded" => result = Rejected(Err("Invalid audio duration."))

InvalidDurationFailsWitness ==
  /\ videoDetails.duration \in {[kind |-> "NaN", units |-> 0], Finite(0)}
  /\ Len(videoDetails.visuals) > 0
  /\ audio = "loaded"
  /\ result = Rejected(Err("Invalid audio duration."))

GridTimes == {Rat(k, FPS * SubFrames) : k \in 0..(2 * MaxDuration + 2)}

\* slot i of n covers the times t with i * D <= t * n
InSlotOrLater(t, i, n) ==
  i * Seconds(videoDetails.duration).n * t.d
    <= t.n * n * Seconds(videoDetails.duration).d

\* C14: with n >= 1 visuals and a duration D > 0, the active visual index of
\* every time t >= 0, the times at and after D included, is in 0..n-1, and
\* every rendered frame has its active visual in that range, the last slot
\* that has begun at the frame's time, and draws it when it has pixels to draw.
ActiveVisualInRange ==
  Started /\ Len(videoDetails.visuals) >= 1 =>
    LET n == Len(videoDetails.visuals)
    IN /\ \A t \in GridTimes : activeVisualIndex(t, slideDuration, n) \in 0..(n - 1)
       /\ \A k \in DOMAIN rendered :
            /\ rendered[k].visual \in 0..(n - 1)
            /\ rendered[k].drawn = (videoDetails.visuals[rendered[k].visual + 1].width > 0)
            /\ InSlotOrLater(rendered[k].time, rendered[k].visual, n)
            /\ rendered[k].visual < n - 1 =>
                 ~InSlotOrLater(rendered[k].time, rendered[k].visual + 1, n)

\* the last frame of a run with several visuals is rendered at a time t >= D
\* and shows the last visual
ActiveVisualInRangeWitness ==
  /\ Len(videoDetails.visuals) >= 2
  /\ rendered # <<>>
  /\ LET last == rendered[Len(rendered)]
     IN /\ RatLeq(Seconds(videoDetails.duration), last.time)
        /\ last.visual = Len(videoDetails.visuals) - 1
        /\ last.drawn

\* sample j of the duration cut into n * SlotGrid equal steps: j * D / (n * SlotGrid)
SlotTime(j, n) ==
  Rat(j * Seconds(videoDetails.duration).n,
      Seconds(videoDetails.duration).d * n * SlotGrid)

\* C15: with n >= 1 visuals the active visual index is non-decreasing in t,
\* never exceeds n - 1, and over [0, D) takes each value i of 0..n-1 on
\* exactly the interval [i * D/n, (i+1) * D/n): sample j of the n * SlotGrid
\* samples of [0, D) has index j \div SlotGrid, and the samples from D on
\* have n - 1.  The frames of a run show the visuals in that order.
SlotsPartitionDuration ==
  Started /\ Len(videoDetails.visuals) >= 1 =>
    LET n == Len(videoDetails.visuals)
        index(j) == activeVisualIndex(SlotTime(j, n), slideDuration, n)
    IN /\ \A j \in 0..(n * SlotGrid - 1) : index(j) = j \div SlotGrid
       /\ \A j \in (n * SlotGrid)..(2 * n * SlotGrid) : index(j) = n - 1
       /\ \A j \in 1..(2 * n * SlotGrid) : index(j - 1) <= index(j)
       /\ \A i \in 0..(n - 1) :
            {j \in 0..(n * SlotGrid - 1) : index(j) = i}
              = (i * SlotGrid)..((i + 1) * SlotGrid - 1)
       /\ \A k \in 2..Len(rendered) : rendered[k - 1].visual <= rendered[k].visual

\* a run that has shown the first and then the last of several visuals
SlotsPartitionDurationWitness ==
  /\ Len(videoDetails.visuals) >= 2
  /\ Len(rendered) >= 2
  /\ rendered[1].visual = 0
  /\ rendered[Len(rendered)].visual = Len(videoDetails.visuals) - 1
  /\ RatLess(rendered[Len(rendered)].time, Seconds(videoDetails.duration))

(***************************************************************************)
(* generateCaptions                                                        *)
(***************************************************************************)
\* generateCaptions has resolved and the handler holds its captions
CaptionsResolved == handler # "none" /\ pc # "captions" /\ ~trace.captionsFailed

RatEq(a, b) == a.n * b.d = b.n * a.d

\* the places where a sentence ends: whitespace right after '.', '!' or '?'
SentenceBoundaries(narration) ==
  {i \in 2..Len(narration) : IsWhitespace(narration[i]) /\ IsTerminal(narration[i - 1])}

\* the durations length_i / charsPerSecond of captions 1..k, added up
SumOfDurations(captions, k, totalLength) ==
  LET RECURSIVE Go(_)
      Go(i) == IF i = 0 THEN Rat(0, 1)
               ELSE RatAdd(Go(i - 1),
                           sentenceDuration(captions[i].text, totalLength,
                                            videoDetails.duration))
  IN Go(k)

\* the characters of captions 1..k
CaptionChars(captions, k) ==
  LET RECURSIVE Go(_)
      Go(i) == IF i = 0 THEN 0 ELSE Go(i - 1) + Len(captions[i].text)
  IN Go(k)

\* C16: for a narration of k >= 1 sentences generateCaptions resolves with k
\* captions laid back-to-back: the first starts at 0, each next one starts
\* where the previous ends, starts never decrease, and the last end is the
\* sum of the sentence durations.
CaptionsBackToBack ==
  LET narration == fullNarration(videoDetails.script)
      k == Cardinality(SentenceBoundaries(narration)) + 1
      captions == generatedCaptions
  IN CaptionsResolved /\ narration # <<>> =>
       /\ Len(captions) = k
       /\ captions[1].start = Rat(0, 1)
       /\ \A i \in 2..k :
            /\ RatEq(captions[i].start, captions[i - 1].end)
            /\ RatLeq(captions[i - 1].start, captions[i].start)
       /\ RatEq(captions[k].end,
                SumOfDurations(captions, k, CaptionChars(captions, k)))

\* the three sentences of "ab.  c! d" have their three captions
CaptionsBackToBackWitness ==
  /\ CaptionsResolved
  /\ fullNarration(videoDetails.script) = <<"a", "b", ".", " ", " ", "c", "!", " ", "d">>
  /\ Len(generatedCaptions) = 3
  /\ generatedCaptions[3].text = <<"d">>

\* C17: every caption generateCaptions resolves with has 0 <= start < end,
\* and the captions are in order without overlap: each ends no later than
\* the next one starts; none has a zero or negative duration.
CaptionsOrderedDisjoint ==
  CaptionsResolved =>
    /\ \A i \in DOMAIN generatedCaptions :
         /\ RatLeq(Rat(0, 1), generatedCaptions[i].start)
         /\ RatLess(generatedCaptions[i].start, generatedCaptions[i].end)
    /\ \A i \in 2..Len(generatedCaptions) :
         RatLeq(generatedCaptions[i - 1].end, generatedCaptions[i].start)

\* two captions, the first of a one-character sentence
CaptionsOrderedDisjointWitness ==
  /\ CaptionsResolved
  /\ Len(generatedCaptions) = 2
  /\ Len(generatedCaptions[2].text) = 1
  /\ RatLess(generatedCaptions[1].start, generatedCaptions[1].end)
  /\ RatLess(generatedCaptions[2].start, generatedCaptions[2].end)

RatSub(a, b) == Rat(a.n * b.d - b.n * a.d, a.d * b.d)

\* C18: each caption's duration is proportional to the character length of
\* its sentence: duration_i * totalLength = length_i * D, totalLength being
\* the sum of the lengths of the sentences that received captions.
DurationProportionalToLength ==
  CaptionsResolved =>
    LET captions == generatedCaptions
        totalLength == CaptionChars(captions, Len(captions))
        D == Seconds(videoDetails.duration)
    IN \A i \in DOMAIN captions :
         LET d == RatSub(captions[i].end, captions[i].start)
         IN d.n * totalLength * D.d = Len(captions[i].text) * D.n * d.d

\* "a. a" and the like: a sentence twice as long as the next lasts twice as long
DurationProportionalToLengthWitness ==
  /\ CaptionsResolved
  /\ Len(generatedCaptions) = 2
  /\ Len(generatedCaptions[1].text) = 2 * Len(generatedCaptions[2].text)
  /\ LET d1 == RatSub(generatedCaptions[1].end, generatedCaptions[1].start)
         d2 == RatSub(generatedCaptions[2].end, generatedCaptions[2].start)
     IN RatEq(d1, Rat(2 * d2.n, d2.d))

\* two quotes on one line: something for /"(.*?)"/ to match
HasQuotedSpan(script) ==
  \E i, j \in 1..Len(script) :
    /\ i < j
    /\ script[i] = QUOTE
    /\ script[j] = QUOTE
    /\ \A k \in (i + 1)..(j - 1) : script[k] # NEWLINE

\* C19: for a valid duration generateCaptions resolves with no captions, and
\* does not reject, when the script has no double-quoted span and also when
\* its quoted spans hold no narration characters.
NoNarrationNoCaptions ==
  LET script == videoDetails.script
  IN ~HasQuotedSpan(script) \/ fullNarration(script) = <<>> =>
       /\ generateCaptions(script, videoDetails.duration)
            = [ok |-> TRUE, error |-> "", captions |-> <<>>]
       /\ CaptionsResolved => generatedCaptions = <<>>
       /\ uploadError.msg # "Invalid audio duration for caption generation."
       /\ downloadError.msg # "Invalid audio duration for caption generation."

\* a script whose only quoted span is blank, or one without any span
NoNarrationNoCaptionsWitness ==
  /\ CaptionsResolved
  /\ generatedCaptions = <<>>
  /\ \/ videoDetails.script = <<QUOTE, " ", " ", QUOTE>>
     \/ videoDetails.script = <<QUOTE, "a", NEWLINE, QUOTE>>

\* C20: a narration that is not empty and has no sentence boundary (no '.',
\* '!' or '?' followed by whitespace) gets exactly one caption, whose text is
\* the whole narration and which starts at 0.
UnsplitNarrationOneCaption ==
  LET narration == fullNarration(videoDetails.script)
  IN CaptionsResolved /\ narration # <<>> /\ SentenceBoundaries(narration) = {} =>
       /\ Len(generatedCaptions) = 1
       /\ generatedCaptions[1].text = narration
       /\ generatedCaptions[1].start = Rat(0, 1)

\* "a .a": whitespace and a full stop, but no full stop before whitespace
UnsplitNarrationOneCaptionWitness ==
  /\ CaptionsResolved
  /\ fullNarration(videoDetails.script) = <<"a", " ", ".", "a">>
  /\ Len(generatedCaptions) = 1
  /\ generatedCaptions[1].text = <<"a", " ", ".", "a">>

(***************************************************************************)
(* The 4-second run of two images                                          *)
(***************************************************************************)
\* C21: for the script  Intro:\n"Hello world. This is a test."  with 4 seconds
\* of audio and two images, generateCaptions resolves with exactly the 2
\* captions of its two sentences, every frame rendered at a time in [0, 2)
\* shows visual 0 and every frame at a time in [2, 4) shows visual 1, and
\* the synthesis ends with a container of all 121 frames: it is rejected
\* only when the canvas, a load, the set-up, the playback or the encoder
\* failed, and once the loop has stopped and the recorder's events are
\* delivered without such a failure the container is there.
HelloRunCompletes ==
  /\ CaptionsResolved =>
       /\ Len(generatedCaptions) = 2
       /\ generatedCaptions[1].text = SubSeq(HelloScript, 9, 20)
       /\ generatedCaptions[2].text = SubSeq(HelloScript, 22, 36)
  /\ \A k \in DOMAIN rendered :
       LET t == rendered[k].time
       IN /\ RatLess(t, Rat(2, 1)) => rendered[k].visual = 0
          /\ RatLeq(Rat(2, 1), t) /\ RatLess(t, Rat(4, 1)) => rendered[k].visual = 1
  /\ result.kind = "error" =>
       Faulted \/ result.error = Err("Cannot get canvas context")
  /\ result.kind = "blob" => Len(rendered) = 4 * FPS + 1
  /\ LoopStopped /\ recorder.queue = <<>> /\ ~Faulted => result.kind = "blob"

\* the run has returned its container: 60 frames of the first image, then 60
\* of the second and the boundary frame
HelloRunCompletesWitness ==
  /\ result.kind = "blob"
  /\ ~Faulted
  /\ Len(generatedCaptions) = 2
  /\ Len(rendered) = 4 * FPS + 1
  /\ rendered[2 * FPS].visual = 0
  /\ rendered[2 * FPS + 1].visual = 1
  /\ rendered[4 * FPS].visual = 1

(***************************************************************************)
(* The motion clips and the caption fade                                   *)
(***************************************************************************)
\* the calls of the last tick on the clip of a visual, in order
CallsOn(index) ==
  LET picked == SelectSeq(lastTick.calls, LAMBDA c : c.clip = index)
  IN [k \in 1..Len(picked) |-> picked[k].op]

\* C22: on a tick whose active visual index differs from the previous one, a
\* motion clip that is left is paused and rewound to position 0, and a motion
\* clip that is entered is started, from position 0; no other clip is
\* touched.  On a tick whose index is unchanged no clip is played, paused or
\* rewound: the clips only move on with the time.
ClipTransitions ==
  [][Len(rendered') = Len(rendered) + 1 =>
       LET old == currentVisualIndex
           new == rendered'[Len(rendered')].visual
       IN IF new # old
          THEN /\ isVideo(old) =>
                    /\ old \notin playing'
                    /\ clipTime'[old + 1] = 0
               /\ isVideo(new) =>
                    /\ new \in playing'
                    /\ \E k \in DOMAIN lastTick'.calls :
                         lastTick'.calls[k] = [op |-> "play", clip |-> new, at |-> 0]
               /\ \A k \in DOMAIN lastTick'.calls :
                    LET call == lastTick'.calls[k]
                    IN \/ call.clip = old /\ isVideo(old) /\ call.op \in {"pause", "rewind"}
                       \/ call.clip = new /\ isVideo(new) /\ call.op = "play"
               /\ playing' \ {new} = playing \ {old}
               /\ \A i \in DOMAIN clipTime :
                    i # old + 1 => clipTime'[i] = advance(clipTime, playing)[i]
          ELSE /\ lastTick'.calls = <<>>
               /\ playing' = playing
               /\ clipTime' = advance(clipTime, playing)]_vars

\* a tick has left a clip that had played, rewound it, and started the next
ClipTransitionsWitness ==
  /\ lastTick.drew
  /\ Len(lastTick.calls) = 3
  /\ lastTick.calls[1].op = "pause" /\ lastTick.calls[1].at > 0
  /\ lastTick.calls[2].op = "rewind" /\ lastTick.calls[2].at = 0
  /\ lastTick.calls[3].op = "play" /\ lastTick.calls[3].at = 0
  /\ CallsOn(currentVisualIndex) = <<"play">>
  /\ clipTime[lastTick.calls[1].clip + 1] = 0

\* C23: on every tick that draws a frame the fade counter is set to the fade
\* window (15) exactly when the caption text of this tick differs from the
\* text of the previous tick, a change to or from no caption included; with
\* the same text it is not reset (it only counts down under a caption).  The
\* counter seen after the tick is one less when a caption was drawn with it.
FadeResetOnChange ==
  [][Len(rendered') = Len(rendered) + 1 =>
       LET text == rendered'[Len(rendered')].caption
           counted(c) == IF text # <<>> /\ c > 0 THEN c - 1 ELSE c
       IN /\ lastCaptionText' = text
          /\ text # lastCaptionText =>
               captionFadeInFrames' = counted(FADE_DURATION_FRAMES)
          /\ text = lastCaptionText =>
               captionFadeInFrames' = counted(captionFadeInFrames)]_vars

\* the boundary frame has no caption after the second one had faded in: the
\* counter is back at 15 and stays
FadeResetOnChangeWitness ==
  /\ Len(rendered) = 4 * FPS + 1
  /\ rendered[4 * FPS].caption # <<>>
  /\ rendered[4 * FPS + 1].caption = <<>>
  /\ lastCaptionText = <<>>
  /\ captionFadeInFrames = FADE_DURATION_FRAMES

\* how many frames in a row, the last rendered one included, show its caption
FramesOfCaption ==
  LET n == Len(rendered)
      starts == {i \in 1..n :
                   /\ \A j \in i..n : rendered[j].caption = rendered[n].caption
                   /\ i = 1 \/ rendered[i - 1].caption # rendered[n].caption}
  IN n - (CHOOSE i \in starts : TRUE) + 1

\* C24: the fade counter stays in 0..15; a caption drawn with the counter at
\* r > 0 has alpha (1 - r/15)^2 and the counter goes down by one on that
\* tick: the j-th frame in a row of a caption has alpha ((j - 1)/15)^2 for
\* j <= 15, so 0 on its first frame, never less than on the frame before, and
\* alpha 1 from the 16th frame on; on a tick without a caption the counter is
\* not decremented.
FadeInQuadratic ==
  /\ [](captionFadeInFrames \in 0..FADE_DURATION_FRAMES)
  /\ [](rendered # <<>> /\ rendered[Len(rendered)].caption # <<>> =>
          LET n == Len(rendered)
              j == FramesOfCaption
          IN /\ j <= FADE_DURATION_FRAMES =>
                  /\ RatEq(rendered[n].alpha,
                           Rat((j - 1) * (j - 1),
                               FADE_DURATION_FRAMES * FADE_DURATION_FRAMES))
                  /\ captionFadeInFrames = FADE_DURATION_FRAMES - j
             /\ j > FADE_DURATION_FRAMES =>
                  /\ rendered[n].alpha = Rat(1, 1)
                  /\ captionFadeInFrames = 0
             /\ j > 1 => RatLeq(rendered[n - 1].alpha, rendered[n].alpha))
  /\ [][Len(rendered') = Len(rendered) + 1
          /\ rendered'[Len(rendered')].caption = <<>>
          => captionFadeInFrames' >= captionFadeInFrames]_vars

\* the first caption has reached its 16th frame: alpha 0, ..., (14/15)^2, 1
FadeInQuadraticWitness ==
  /\ Len(rendered) = FADE_DURATION_FRAMES + 1
  /\ rendered[1].caption # <<>>
  /\ rendered[1].alpha = Rat(0, FADE_DURATION_FRAMES * FADE_DURATION_FRAMES)
  /\ RatEq(rendered[FADE_DURATION_FRAMES].alpha, Rat(196, 225))
  /\ rendered[FADE_DURATION_FRAMES + 1].alpha = Rat(1, 1)
  /\ captionFadeInFrames = 0

(***************************************************************************)
(* The caption lookup                                                      *)
(***************************************************************************)
\* sample j of the timeline cut into half-character steps: j * D / (2 * totalLength)
CharTime(j, totalLength) ==
  Rat(j * Seconds(videoDetails.duration).n,
      Seconds(videoDetails.duration).d * totalLength * 2)

\* the captions whose interval [start, end) holds t
ActiveAt(captions, t) ==
  {i \in DOMAIN captions : RatLeq(captions[i].start, t) /\ RatLess(t, captions[i].end)}

\* C25: for the captions generateCaptions resolved with and any time t, at
\* most one caption has start <= t < end and the lookup returns it: at every
\* t before the end of the last caption exactly one caption is active, the
\* one whose characters are being spoken at t, and from the end of the last
\* caption on none is.
OneActiveCaption ==
  CaptionsResolved =>
    LET captions == generatedCaptions
        totalLength == CaptionChars(captions, Len(captions))
    IN \A j \in 0..(2 * totalLength + 2) :
         LET t == CharTime(j, totalLength)
             hits == ActiveAt(captions, t)
         IN /\ Cardinality(hits) <= 1
            /\ j < 2 * totalLength =>
                 /\ hits = {i \in DOMAIN captions :
                              /\ 2 * CaptionChars(captions, i - 1) <= j
                              /\ j < 2 * CaptionChars(captions, i)}
                 /\ \E i \in hits : activeCaptionText(captions, t) = captions[i].text
            /\ j >= 2 * totalLength =>
                 /\ hits = {}
                 /\ activeCaptionText(captions, t) = <<>>

\* where the first of two different captions ends the second is active, and
\* where the second ends none is
OneActiveCaptionWitness ==
  /\ CaptionsResolved
  /\ Len(generatedCaptions) = 2
  /\ generatedCaptions[1].text # generatedCaptions[2].text
  /\ activeCaptionText(generatedCaptions, generatedCaptions[1].end)
       = generatedCaptions[2].text
  /\ activeCaptionText(generatedCaptions, generatedCaptions[2].end) = <<>>

(***************************************************************************)
(* The live preview                                                        *)
(***************************************************************************)
\* C26: the preview and the compositor compute the same functions of time:
\* after an update of the preview at time t, with n >= 1 visuals and a
\* finite duration, the preview's visual index is the compositor's active
\* visual index at t, and the preview's caption text is the compositor's
\* caption text at t for the same caption list (the preview has a list of
\* its own unless its generateCaptions was rejected).
PreviewMatchesCompositor ==
  [][preview'.updated /\ preview'.effect = preview.effect /\ preview' # preview =>
       LET t == preview'.time
           n == Len(videoDetails.visuals)
           D == Seconds(videoDetails.duration)
       IN /\ isFinite(videoDetails.duration) /\ n >= 1 =>
               preview'.currentVisualIndex
                 = activeVisualIndex(t, Rat(D.n, D.d * n), n)
          /\ preview.effect # "rejected" =>
               preview'.currentCaption = activeCaptionText(preview.captions, t)]_vars

\* the preview shows the second visual and the second caption of "a. b"
PreviewMatchesCompositorWitness ==
  /\ preview.updated
  /\ preview.effect = "resolved"
  /\ Len(videoDetails.visuals) = 2
  /\ preview.currentVisualIndex = 1
  /\ Len(preview.captions) = 2
  /\ preview.currentCaption = preview.captions[2].text

MediaSizes ==
  {<<(canvasWidth \div 4) * i, (canvasHeight \div 4) * j>> :
     i \in 1..MaxMediaScale, j \in 1..MaxMediaScale}
    \cup {<<1000, 1000>>, <<7, 720>>, <<1, 1>>}

\* the narrations of one sentence: words of narrow and wide glyphs with one
\* or more spaces between them
DrawTexts ==
  {t \in Strings({"a", "W", " "}, MaxCaptionLen) :
     t # <<>> /\ t[1] # " " /\ t[Len(t)] # " "}

\* createVideoBlob called with one image of any of the sizes under a caption
\* of two words, or with one image of the canvas size under any of the
\* narrations, each narration being the one caption of its script
InitDraw ==
  /\ \/ \E s \in MediaSizes :
          videoDetails =
            [script |-> <<QUOTE, "a", " ", "W", QUOTE>>,
             visuals |-> <<[name |-> 1, isVideo |-> FALSE,
                            width |-> s[1], height |-> s[2]]>>,
             audio |-> TRUE,
             duration |-> Finite(1)]
     \/ \E t \in DrawTexts :
          videoDetails =
            [script |-> <<QUOTE>> \o t \o <<QUOTE>>,
             visuals |-> <<[name |-> 1, isVideo |-> FALSE,
                            width |-> canvasWidth, height |-> canvasHeight]>>,
             audio |-> TRUE,
             duration |-> Finite(1)]
  /\ handler = "direct"
  /\ generatedCaptions =
       generateCaptions(videoDetails.script, videoDetails.duration).captions
  /\ Unstarted

SpecDraw == InitDraw /\ [][NextDirect]_vars

\* C27: a visual of width w > 0 and height h is drawn scaled by
\* max(1280 / w, 720 / h) and centred: the drawn rectangle keeps the visual's
\* proportions, is at least 1280 wide and 720 high with one of the two exact,
\* has offsets that are not positive, and covers the whole canvas.
CoverFitCoversCanvas ==
  lastTick.drew /\ lastTick.rect # NoRect =>
    LET r == [f \in {"x", "y", "w", "h"} |-> RatReduce(lastTick.rect[f])]
        v == videoDetails.visuals[currentVisualIndex + 1]
        W == Rat(canvasWidth, 1)
        H == Rat(canvasHeight, 1)
        Zero == Rat(0, 1)
    IN /\ lastTick.rect = coverFit(v.width, v.height)
       /\ RatLeq(W, r.w) /\ RatLeq(H, r.h)
       /\ RatEq(r.w, W) \/ RatEq(r.h, H)
       /\ r.w.n * r.h.d * v.height = r.h.n * r.w.d * v.width
       /\ RatLeq(Rat(canvasWidth, v.width), RatReduce(Rat(r.w.n, r.w.d * v.width)))
       /\ RatLeq(Rat(canvasHeight, v.height), RatReduce(Rat(r.w.n, r.w.d * v.width)))
       /\ RatLeq(r.x, Zero) /\ RatLeq(r.y, Zero)
       /\ RatEq(RatAdd(RatAdd(r.x, r.x), r.w), W)
       /\ RatEq(RatAdd(RatAdd(r.y, r.y), r.h), H)
       /\ RatLeq(W, RatAdd(r.x, r.w)) /\ RatLeq(H, RatAdd(r.y, r.h))

\* a visual wider than 16:9 is drawn 720 high, wider than the canvas, and
\* cropped left and right
CoverFitCoversCanvasWitness ==
  /\ lastTick.drew
  /\ videoDetails.visuals[1].width = 2 * (canvasWidth \div 4)
  /\ videoDetails.visuals[1].height = canvasHeight \div 4
  /\ RatReduce(lastTick.rect.h) = Rat(canvasHeight, 1)
  /\ RatReduce(lastTick.rect.w) = Rat(2 * canvasWidth, 1)
  /\ RatReduce(lastTick.rect.x) = Rat(-(canvasWidth \div 2), 1)
  /\ RatReduce(lastTick.rect.y) = Rat(0, 1)

\* the words of a text that are not empty, in order
wordsOf(text) == SelectSeq(splitSpaces(text), LAMBDA w : w # <<>>)

\* the words of the lines, the lines taken from the last of the sequence to
\* the first
wordsFromLast(lines) ==
  LET RECURSIVE Go(_)
      Go(k) == IF k = 0 THEN <<>> ELSE wordsOf(lines[k].line) \o Go(k - 1)
  IN Go(Len(lines))

\* C28: the caption is wrapped greedily and anchored at the bottom: the lines
\* hold every word of the caption once and in order, a line of more than one
\* word is never wider than 90% of the canvas width, a word starts a new line
\* only when the line before it would have exceeded that width with it, and
\* the last line is drawn lowest, at canvas.height - 20, each earlier line
\* 1.2 * fontSize higher.
GreedyWrapBottomAnchored ==
  lastTick.drew /\ lastTick.lines # <<>> =>
    LET L == lastTick.lines
        n == Len(L)
    IN /\ lastCaptionText # <<>>
       /\ wordsFromLast(L) = wordsOf(lastCaptionText)
       /\ \A k \in 1..n :
            (\E i \in 1..Len(L[k].line) : L[k].line[i] = " ") =>
              RatLeq(measureText(L[k].line), maxWidth)
       /\ \A k \in 1..(n - 1) :
            /\ wordsOf(L[k].line) # <<>>
            /\ RatLess(maxWidth,
                       measureText(L[k + 1].line \o <<" ">> \o wordsOf(L[k].line)[1]))
       /\ RatEq(L[1].y, Rat(canvasHeight - bottomMargin, 1))
       /\ \A k \in 1..n :
            RatEq(L[k].y, Rat((canvasHeight - bottomMargin) * 10
                                - (k - 1) * fontSize * 12, 10))
       /\ \A k \in 1..(n - 1) : RatLess(L[k + 1].y, L[k].y)

\* "a a W" is drawn on two lines: "a a" above and "W", which did not fit on
\* it, at the bottom
GreedyWrapBottomAnchoredWitness ==
  /\ lastTick.drew
  /\ lastCaptionText = <<"a", " ", "a", " ", "W">>
  /\ Len(lastTick.lines) = 2
  /\ lastTick.lines[1].line = <<"W">>
  /\ lastTick.lines[2].line = <<"a", " ", "a">>
  /\ RatLess(lastTick.lines[2].y, lastTick.lines[1].y)

(***************************************************************************)
(* The captions and the audio                                              *)
(***************************************************************************)
\* C30: in exact arithmetic the captions tile the audio: when there is a
\* caption, the last one ends at the audio's duration D, the intervals of the
\* captions add up to D, every time of [0, D) has an active caption, and a
\* frame at or after D has none.
CaptionsTileDuration ==
  CaptionsResolved /\ generatedCaptions # <<>> =>
    LET captions == generatedCaptions
        k == Len(captions)
        D == Seconds(videoDetails.duration)
    IN /\ RatEq(captions[1].start, Rat(0, 1))
       /\ RatEq(captions[k].end, D)
       /\ RatEq(SumOfDurations(captions, k, CaptionChars(captions, k)), D)
       /\ \A t \in GridTimes :
            /\ RatLess(t, D) =>
                 /\ ActiveAt(captions, t) # {}
                 /\ activeCaptionText(captions, t) # <<>>
            /\ RatLeq(D, t) =>
                 /\ ActiveAt(captions, t) = {}
                 /\ activeCaptionText(captions, t) = <<>>

\* two captions of different lengths over the longest audio: the second ends
\* with the audio, a frame before that shows it and the frame at the end
\* shows nothing
CaptionsTileDurationWitness ==
  /\ CaptionsResolved
  /\ videoDetails.duration = Finite(MaxDuration)
  /\ Len(generatedCaptions) = 2
  /\ Len(generatedCaptions[1].text) # Len(generatedCaptions[2].text)
  /\ RatEq(generatedCaptions[2].end, Seconds(videoDetails.duration))
  /\ activeCaptionText(generatedCaptions, Rat(MaxDuration - 1, FPS * SubFrames))
       = generatedCaptions[2].text
  /\ activeCaptionText(generatedCaptions, Rat(MaxDuration, FPS * SubFrames)) = <<>>

(***************************************************************************)
(* The visuals of a completed run                                          *)
(***************************************************************************)
\* the run has resolved with its container
Completed == result.kind = "blob"

\* the active visual of every rendered frame, in order
ShownVisuals == [k \in 1..Len(rendered) |-> rendered[k].visual]

\* every visual is the active one of some frame, and from one frame to the
\* next the active index stays or goes up by one
ShownInTurn ==
  /\ \A i \in 0..(Len(videoDetails.visuals) - 1) :
       \E k \in DOMAIN ShownVisuals : ShownVisuals[k] = i
  /\ \A k \in 2..Len(ShownVisuals) :
       ShownVisuals[k] - ShownVisuals[k - 1] \in {0, 1}

\* C31 as stated: in a completed run with n >= 1 visuals every visual index
\* of [0, n-1] is the active visual of at least one rendered frame, and the
\* active indices of the rendered frames never decrease and never jump by
\* more than 1.
EveryVisualShown ==
  Completed /\ Len(videoDetails.visuals) >= 1 => ShownInTurn

\* C31 amended: the same, for runs whose slots last at least one frame
\* period (duration * 30 >= n).
EveryVisualShownInLongSlots ==
  /\ Completed
  /\ Len(videoDetails.visuals) >= 1
  /\ videoDetails.duration.units >= Len(videoDetails.visuals) * SubFrames
  => ShownInTurn

\* as many frames of audio as there are images, more than one: each frame
\* shows the next image and the frame at the end the last image again
EveryVisualShownInLongSlotsWitness ==
  /\ Completed
  /\ Len(videoDetails.visuals) = MaxVisuals + 1
  /\ videoDetails.duration = Finite((MaxVisuals + 1) * SubFrames)
  /\ ShownVisuals = [k \in 1..(MaxVisuals + 2) |-> Min(k - 1, MaxVisuals)]

(***************************************************************************)
(* The motion clip that is playing                                         *)
(***************************************************************************)
\* C32: at every point of a run at most one motion clip is playing, and a
\* playing clip is the motion clip of the currently active visual; before the
\* first frame and after the loop has stopped no motion clip is playing.
OneClipPlaying ==
  /\ Cardinality(playing) <= 1
  /\ \A i \in playing : i = currentVisualIndex /\ isVideo(i)
  /\ rendered = <<>> => playing = {}
  /\ ~renderInterval => playing = {}

\* the second of two motion clips plays while the first, which has played,
\* is back at its start
OneClipPlayingWitness ==
  /\ Len(videoDetails.visuals) = 2
  /\ isVideo(0) /\ isVideo(1)
  /\ currentVisualIndex = 1
  /\ playing = {1}
  /\ clipTime = <<0, 1>>

(***************************************************************************)
(* The buttons: one video in the making at a time                          *)
(***************************************************************************)
\* a handler is between its first await and its finally block
InFlight == handler \in {"upload", "download"} /\ pc \in {"captions", "blob", "upload"}

MaxCalls == 2
\* image prompts that generateYouTubeDetails returns
MaxPrompts == 1
\* files the user adds to a VideoCreator
MaxUploads == 1

\* what generateScript may resolve with: text without and with quoted narration
GeneratedScripts == {<<"a">>, <<QUOTE, "a", QUOTE>>}

Prompts(k) == [j \in 1..k |-> "prompt"]

\* a check of the visuals that lets every call through
noVisualsIgnored(finalVisuals) == FALSE
\* if (finalVisuals.length === 0) throw
noVisuals(finalVisuals) == Len(finalVisuals) = 0

\* if (!narrationParts || narrationParts.length === 0) throw
noNarration(script) == matchQuoted(script) = <<>>

\* a component that is unmounted: its state is gone, the calls of its
\* handleCreateVideo go on with what they captured
unmounted(calls) == [c \in 1..Len(calls) |-> [calls[c] EXCEPT !.live = FALSE]]

without(calls, c) == SubSeq(calls, 1, c - 1) \o SubSeq(calls, c + 1, Len(calls))

\* ScriptGenerator's handleProceed: onScriptGenerated(generatedScript)
handleScriptGenerated ==
  /\ wizard.currentStep = GENERATE_SCRIPT
  /\ \E generatedScript \in GeneratedScripts :
       wizard' = [wizard EXCEPT !.script = generatedScript,
                                !.currentStep = CREATE_VIDEO,
                                !.creator = CreatorMounted]
  /\ UNCHANGED <<synthesis, preview, client>>

\* VideoCreator's effect: generateYouTubeDetails(script) settles
fetchDetails ==
  /\ wizard.currentStep = CREATE_VIDEO
  /\ wizard.creator.isLoadingDetails
  /\ \E ok \in BOOLEAN, k \in 0..MaxPrompts :
       wizard' = [wizard EXCEPT !.creator.isLoadingDetails = FALSE,
                                !.creator.imagePrompts =
                                   IF ok THEN Prompts(k) ELSE <<>>]
  /\ UNCHANGED <<synthesis, preview, client>>

\* the file input: setVisuals(prev => [...prev, ...newVisuals])
handleFileChange ==
  /\ wizard.currentStep = CREATE_VIDEO
  /\ ~wizard.creator.isLoadingDetails
  /\ Len(wizard.creator.visuals) < MaxUploads
  /\ wizard' = [wizard EXCEPT !.creator.visuals = Append(@, "file")]
  /\ UNCHANGED <<synthesis, preview, client>>

\* handleCreateVideo from the end of its visuals loop: the two checks, then
\* the await of generateVoiceover; a throw goes through catch and finally
afterVisuals(w, call) ==
  IF noVisuals(call.finalVisuals) \/ noNarration(call.script)
  THEN [w EXCEPT !.creator.isCreating = IF call.live THEN FALSE ELSE @]
  ELSE [w EXCEPT !.calls = Append(@, [call EXCEPT !.awaiting = "generateVoiceover"])]

\* the button "Generate & Proceed", up to the first await
handleCreateVideo ==
  /\ wizard.currentStep = CREATE_VIDEO
  /\ ~wizard.creator.isLoadingDetails
  /\ ~wizard.creator.isCreating
  /\ wizard.started < MaxCalls
  /\ LET w == [wizard EXCEPT !.creator.isCreating = TRUE, !.started = @ + 1]
         call == [script |-> wizard.script,
                  imagePrompts |-> wizard.creator.imagePrompts,
                  finalVisuals |-> wizard.creator.visuals,
                  i |-> 1,
                  awaiting |-> "generateStaticVisual",
                  live |-> TRUE]
     IN wizard' = IF Len(call.finalVisuals) = 0 /\ Len(call.imagePrompts) > 0
                  THEN [w EXCEPT !.calls = Append(@, call)]
                  ELSE afterVisuals(w, call)
  /\ UNCHANGED <<synthesis, preview, client>>

\* await generateStaticVisual(prompt) settles in a call's loop
staticVisualSettled ==
  /\ \E c \in 1..Len(wizard.calls), ok \in BOOLEAN :
       /\ wizard.calls[c].awaiting = "generateStaticVisual"
       /\ LET call == wizard.calls[c]
              rest == [wizard EXCEPT !.calls = without(@, c)]
              pushed == [call EXCEPT !.finalVisuals = Append(@, "image"),
                                     !.i = @ + 1]
              shown == [rest EXCEPT !.creator.visuals =
                                       IF call.live THEN Append(@, "image") ELSE @]
          IN wizard' =
               IF ~ok
               THEN [rest EXCEPT !.creator.isCreating =
                                    IF call.live THEN FALSE ELSE @]
               ELSE IF pushed.i <= Len(call.imagePrompts)
                    THEN [shown EXCEPT !.calls = Append(@, pushed)]
                    ELSE afterVisuals(shown, pushed)
  /\ UNCHANGED <<synthesis, preview, client>>

\* App.handleVideoCreated(details), as a call's onVideoCreated
handleVideoCreated(w, details) ==
  [w EXCEPT !.videoDetails = details,
            !.currentStep = UPLOAD_VIDEO,
            !.creator = NoCreator,
            !.calls = unmounted(@)]

\* await generateVoiceover(narrationScript, selectedVoice) settles
voiceoverSettled ==
  /\ \E c \in 1..Len(wizard.calls), ok \in BOOLEAN :
       /\ wizard.calls[c].awaiting = "generateVoiceover"
       /\ LET call == wizard.calls[c]
              rest == [wizard EXCEPT !.calls = without(@, c)]
          IN wizard' =
               IF ok
               THEN handleVideoCreated(
                      [rest EXCEPT !.invoked = @ + 1],
                      [isNull |-> FALSE, script |-> call.script,
                       visuals |-> call.finalVisuals, audioDataUrl |-> TRUE])
               ELSE [rest EXCEPT !.creator.isCreating =
                                    IF call.live THEN FALSE ELSE @]
  /\ UNCHANGED <<synthesis, preview, client>>

\* VideoCreator's Back button: onBack, which no flag disables
creatorBack ==
  /\ wizard.currentStep = CREATE_VIDEO
  /\ ~wizard.creator.isLoadingDetails
  /\ wizard' = [wizard EXCEPT !.currentStep = GENERATE_SCRIPT,
                              !.creator = NoCreator,
                              !.calls = unmounted(@)]
  /\ UNCHANGED <<synthesis, preview, client>>

\* YouTubeUploader's Back button: onBack
uploaderBack ==
  /\ wizard.currentStep = UPLOAD_VIDEO
  /\ ~wizard.videoDetails.isNull
  /\ wizard' = [wizard EXCEPT !.currentStep = CREATE_VIDEO,
                              !.creator = CreatorMounted]
  /\ UNCHANGED <<synthesis, preview, client>>

\* YouTubeUploader's onReset
handleReset ==
  /\ wizard.currentStep = UPLOAD_VIDEO
  /\ ~wizard.videoDetails.isNull
  /\ wizard' = [wizard EXCEPT !.currentStep = GENERATE_SCRIPT,
                              !.script = <<>>,
                              !.videoDetails = NoVideoDetails]
  /\ UNCHANGED <<synthesis, preview, client>>

InitWizard ==
  /\ videoDetails =
       [script |-> <<QUOTE, "a", QUOTE>>,
        visuals |-> <<[name |-> 1, isVideo |-> FALSE, width |-> 1, height |-> 1]>>,
        audio |-> TRUE,
        duration |-> Finite(1)]
  /\ Mounted

NextWizard ==
  \/ handleScriptGenerated
  \/ fetchDetails
  \/ handleFileChange
  \/ handleCreateVideo
  \/ staticVisualSettled
  \/ voiceoverSettled
  \/ creatorBack
  \/ uploaderBack
  \/ handleReset

SpecWizard == InitWizard /\ [][NextWizard]_vars

\* C34: whenever the wizard is in UPLOAD_VIDEO, videoDetails is not null and
\* has at least one visual and an audioDataUrl; and every step that invokes
\* onVideoCreated is the step of a handleCreateVideo call that had at least
\* one visual, found quoted narration in its script and whose voiceover
\* resolved, the details being that call's.
UploadStepHasInputs ==
  /\ [](wizard.currentStep = UPLOAD_VIDEO =>
          /\ ~wizard.videoDetails.isNull
          /\ Len(wizard.videoDetails.visuals) >= 1
          /\ wizard.videoDetails.audioDataUrl)
  /\ [][wizard'.invoked # wizard.invoked =>
          \E c \in 1..Len(wizard.calls) :
            /\ Len(wizard.calls[c].finalVisuals) >= 1
            /\ matchQuoted(wizard.calls[c].script) # <<>>
            /\ wizard.calls[c].awaiting = "generateVoiceover"
            /\ Len(wizard'.calls) = Len(wizard.calls) - 1
            /\ wizard'.videoDetails.visuals = wizard.calls[c].finalVisuals
            /\ wizard'.videoDetails.script = wizard.calls[c].script
            /\ wizard'.videoDetails.audioDataUrl]_vars
  /\ [][wizard'.invoked = wizard.invoked =>
          \/ wizard'.videoDetails = wizard.videoDetails
          \/ wizard'.videoDetails.isNull /\ wizard'.currentStep = GENERATE_SCRIPT]_vars

\* the uploader is shown with the visual that a call generated from its
\* prompt, after an earlier call had ended without invoking onVideoCreated
UploadStepHasInputsWitness ==
  /\ wizard.currentStep = UPLOAD_VIDEO
  /\ wizard.videoDetails.visuals = <<"image">>
  /\ wizard.started = 2
  /\ wizard.invoked = 1
  /\ wizard.calls = <<>>

\* C35: the wizard enters UPLOAD_VIDEO only from CREATE_VIDEO, and the
\* videoDetails it enters with carry the script the App holds at that moment.
EntersUploadFromCreate ==
  [][wizard'.currentStep = UPLOAD_VIDEO /\ wizard.currentStep # UPLOAD_VIDEO =>
       /\ wizard.currentStep = CREATE_VIDEO
       /\ wizard'.videoDetails.script = wizard'.script]_vars

(***************************************************************************)
(* youtubeService: the two scripts, initClient, signIn                     *)
(***************************************************************************)

\* calls of initClient (one per mounted YouTubeUploader) the model makes
MaxInits == 2
\* calls of signIn the model makes
MaxSignIns == 2

\* a test that starts the clients as soon as one script has loaded
eitherLoaded(c) == c.gapiLoaded \/ c.gisLoaded
\* gapiLoaded && gisLoaded
bothLoaded(c) == c.gapiLoaded /\ c.gisLoaded

\* initializeClients: a new token client, and gapi.client.load('youtube')
\* whose callback is yet to come
initializeClients(c) ==
  [c EXCEPT !.tokenClient = @ + 1, !.youtubeLoads = @ + 1]

checkGisLoaded(c) == IF bothLoaded(c) THEN initializeClients(c) ELSE c

\* gapiScript.onload: window.gapi.load('client', ...) is under way
gapiScriptOnload ==
  /\ client.gapiScript = "loading"
  /\ client' = [client EXCEPT !.gapiScript = "loaded"]
  /\ UNCHANGED <<synthesis, preview, wizard>>

\* the callback of window.gapi.load('client', ...)
gapiClientLoaded ==
  /\ client.gapiScript = "loaded"
  /\ ~client.gapiLoaded
  /\ client' = checkGisLoaded([client EXCEPT !.gapiLoaded = TRUE])
  /\ UNCHANGED <<synthesis, preview, wizard>>

\* gisScript.onload
gisScriptOnload ==
  /\ ~client.gisLoaded
  /\ client' = checkGisLoaded([client EXCEPT !.gisLoaded = TRUE])
  /\ UNCHANGED <<synthesis, preview, wizard>>

\* initClient(callback); callbacks are numbered in the order of the calls
registerCallback ==
  /\ LET c == [client EXCEPT !.onAuthChange = client.inits + 1, !.inits = @ + 1]
     IN client' = IF bothLoaded(c) THEN initializeClients(c) ELSE c
  /\ UNCHANGED <<synthesis, preview, wizard>>

\* the effect of the first YouTubeUploader that is mounted
initClient ==
  /\ client.inits = 0
  /\ registerCallback

\* the effect of a YouTubeUploader mounted later
initClientAgain ==
  /\ client.inits > 0
  /\ client.inits < MaxInits
  /\ registerCallback

\* the callback of gapi.client.load: onAuthChange(true, !!getToken())
youtubeLoaded ==
  /\ client.youtubeLoads > 0
  /\ client' = [client EXCEPT !.youtubeLoads = @ - 1,
                              !.ready = IF client.onAuthChange # 0
                                        THEN @ \cup {client.onAuthChange} ELSE @]
  /\ UNCHANGED <<synthesis, preview, wizard>>

\* signIn(callback)
signIn ==
  /\ client.signIns < MaxSignIns
  /\ client' = IF client.tokenClient = 0
               THEN [client EXCEPT !.signIns = @ + 1, !.lastSignIn = "false"]
               ELSE [client EXCEPT !.signIns = @ + 1, !.lastSignIn = "requested",
                                   !.request = "pending", !.requests = @ + 1]
  /\ UNCHANGED <<synthesis, preview, wizard>>

\* tokenClient.callback as signIn set it
tokenResponse ==
  /\ client.request = "pending"
  /\ \E error \in BOOLEAN :
       client' = IF error
                 THEN [client EXCEPT !.request = "none", !.lastSignIn = "false"]
                 ELSE [client EXCEPT !.request = "none", !.lastSignIn = "true",
                                     !.token = TRUE]
  /\ UNCHANGED <<synthesis, preview, wizard>>

NextClient ==
  \/ gapiScriptOnload
  \/ gapiClientLoaded
  \/ gisScriptOnload
  \/ initClient
  \/ initClientAgain
  \/ youtubeLoaded
  \/ signIn
  \/ tokenResponse

\* both scripts load, every load calls its callback, and a YouTubeUploader
\* is mounted
SpecClient ==
  /\ InitWizard
  /\ [][NextClient]_vars
  /\ WF_vars(gapiScriptOnload)
  /\ WF_vars(gapiClientLoaded)
  /\ WF_vars(gisScriptOnload)
  /\ WF_vars(initClient)
  /\ WF_vars(youtubeLoaded)

\* C36: in whatever order the gapi script, the GIS script and initClient
\* come, a callback is eventually invoked with isReady = true, and the
\* callback of an initClient call is invoked so unless a later call replaces
\* it; no callback is invoked with isReady = true before both scripts have
\* loaded and the token client exists; a signIn made while there is no token
\* client calls back with false and requests no token.
ClientBecomesReady ==
  /\ <>(client.ready # {})
  /\ \A k \in 1..MaxInits :
       (client.onAuthChange = k) ~> (k \in client.ready \/ client.onAuthChange # k)
  /\ [](client.ready # {} =>
          client.gapiLoaded /\ client.gisLoaded /\ client.tokenClient # 0)
  /\ [][client'.ready # client.ready =>
          client.gapiLoaded /\ client.gisLoaded /\ client.tokenClient # 0]_vars
  /\ [][client'.signIns # client.signIns /\ client.tokenClient = 0 =>
          /\ client'.lastSignIn = "false"
          /\ client'.requests = client.requests
          /\ client'.request = client.request]_vars

\* initClient came last, after both scripts and after the youtube load of
\* the first token client had called back to nobody; its callback was
\* invoked all the same, and a signIn before the scripts was refused
ClientBecomesReadyWitness ==
  /\ client.inits = 1
  /\ client.tokenClient = 2
  /\ client.ready = {1}
  /\ client.signIns = 1
  /\ client.lastSignIn = "false"
  /\ client.requests = 0

====
